---- MODULE Spec2Model ----
(***************************************************************************)
(* Model of the Figma Technical Advisor plugin:                            *)
(*   - ClaudeAPIService (src/src/claude-api.ts): key format check, one     *)
(*     analyzeDesign call, the response validator parseClaudeResponse;     *)
(*   - DesignExtractor (src/src/design-extractor-simple.ts);               *)
(*   - the main thread (src/src/main.ts) and the Plugin UI component       *)
(*     (src/src/ui.tsx, the component that holds the apiKey state).        *)
(*                                                                         *)
(* Texts are sequences of lexical tokens, JSON values are tagged records,  *)
(* numbers are held in hundredths (0.5 is 50, 7 is 700).                   *)
(***************************************************************************)
EXTENDS Integers, Sequences, FiniteSets, TLC

VARIABLES
    \* one analyzeDesign call, followed to the UI's error/feedback state
    commentaryBefore,   \* tokens the LLM wrote before the object
    body,               \* tokens of the object (possibly cut short)
    commentaryAfter,    \* tokens the LLM wrote after it
    http,               \* what fetch produced: [kind, status, reason]
    pcA,                \* position inside analyzeDesign / parseClaudeResponse
    span,               \* result of responseText.match(/\{[\s\S]*\}/)
    parsed,             \* result of JSON.parse(jsonMatch[0])
    parseOut,           \* what parseClaudeResponse returned or threw
    apiOut,             \* what analyzeDesign returned or threw
    shownError,         \* the UI's error state after the call (<<>> = null)
    \* isValidApiKey applied to one key
    keyInput, keyVerdict,
    \* the document, the selection and one extractDesignData call
    docParent,          \* node -> its parent node, 0 for a child of the page
    selection,          \* figma.currentPage.selection / the call's argument
    pcX,                \* position inside extractDesignData
    selIdx,             \* extractPageData: index of the selection node in turn
    processedPages,     \* extractPageData: the Set of page ids
    pages,              \* extractPageData: the pages built so far
    nodesRead,          \* nodes that an accessor has been called on
    extractOut,         \* <<"running">>, <<"returned">> or the message thrown
    \* the Plugin component, the main thread and the messages between them
    apiKey, showApiKeyInput, isAnalyzing, isExtracting, feedback, error,
    handlers,           \* per run of the effect: the apiKey its listeners captured
    toMain,             \* messages emitted by the UI, not yet handled by main
    toUI,               \* messages emitted by main, not yet handled by the UI
    savedKey,           \* the credential the host has stored (<<>> = none)
    inflight,           \* fetches awaiting their response
    closed,             \* figma.closePlugin() was called
    attempt,            \* number of ANALYZE_SELECTION messages emitted so far
    handledEmpty,       \* attempts that main handled with an empty selection
    emitted,            \* history: [attempt, type] of each event main emitted
    posts,              \* history: [gen, key, attempt, current] of each POST issued
    \* a document with node types and the side-collections computed from it
    sceneParent,        \* node -> its parent node, 0 for a child of the page
    sceneNodes,         \* node -> [type, layoutMode, name, mainComponent, variantAxes],
                        \* with description and fills where they are read
    sceneSelection,     \* the selection handed to the extractor
    pcD,                \* "start" before the step, "done" after it
    layout,             \* what analyzeLayoutComplexity returned
    components,         \* what extractComponentData returned
    instances,          \* what extractInstanceData returned
    interactive,        \* what extractInteractiveElements returned
    payload,            \* the part of analysisData that is serialized
    reparsed,           \* JSON.parse(JSON.stringify(payload))
    \* buildAnalysisPrompt applied to one payload
    images,             \* designData.images: [present, list]
    pcP,                \* "start" before the call, "done" after it
    content             \* the blocks buildAnalysisPrompt returned

varsA == <<commentaryBefore, body, commentaryAfter, http, pcA, span, parsed,
           parseOut, apiOut, shownError>>
varsK == <<keyInput, keyVerdict>>
varsX == <<docParent, selection, pcX, selIdx, processedPages, pages, nodesRead, extractOut>>
varsU == <<apiKey, showApiKeyInput, isAnalyzing, isExtracting, feedback, error,
           handlers, toMain, toUI, savedKey, inflight, closed, attempt,
           handledEmpty, emitted, posts>>

varsD == <<sceneParent, sceneNodes, sceneSelection, pcD, layout, components,
           instances, interactive, payload, reparsed>>
varsP == <<images, pcP, content>>

\* what the actions of one part leave alone
notA == <<varsK, varsX, varsU, varsD, varsP>>
notK == <<varsA, varsX, varsU, varsD, varsP>>
notX == <<varsA, varsK, varsU, varsD, varsP>>
notD == <<varsA, varsK, varsX, varsU, varsP>>
notP == <<varsA, varsK, varsX, varsU, varsD>>
\* the UI specification keeps the document and lets the selection change
notU == <<varsA, varsK, varsD, varsP,
          docParent, pcX, selIdx, processedPages, pages, nodesRead, extractOut>>

Range(seq) == {seq[i] : i \in 1..Len(seq)}

-----------------------------------------------------------------------------
(* Bounds of the model *)

MaxCommentary == 1      \* tokens of commentary on each side of the object
MaxMembers == 2         \* top-level members of a generated object
MaxCut == 2             \* tokens a truncated reply may lack at its end
MaxKeyLen == 22         \* longest credential tried
MaxNodes == 4           \* scene nodes of a generated document
MaxSel == 2             \* nodes of a selection
MaxHandlers == 3         \* listener generations the effect may register
MaxAttempts == 1        \* ANALYZE_SELECTION messages of a session
MaxQueue == 1            \* messages a click may find pending and still emit
MaxChain == 10          \* containers nested in one another in a layout document
MaxLeaves == 2          \* leaves under the deepest container
MaxImages == 5          \* images of a payload
MaxSceneNodes == 3      \* nodes of a document with components
MaxAxes == 4            \* variant properties of a component set
MaxExtra == 50          \* further leaf layers inside one component

-----------------------------------------------------------------------------
(* JSON values: [kind, num, str, members]; members is a set of <<key, value>> *)

Undefined == [kind |-> "undefined", num |-> 0, str |-> "", members |-> {}]
Null == [kind |-> "null", num |-> 0, str |-> "", members |-> {}]
Num(h) == [kind |-> "num", num |-> h, str |-> "", members |-> {}]
Str(s) == [kind |-> "str", num |-> 0, str |-> s, members |-> {}]
Arr(n) == [kind |-> "arr", num |-> n, str |-> "", members |-> {}]
Obj(m) == [kind |-> "obj", num |-> 0, str |-> "", members |-> m]
Bool(b) == [kind |-> "bool", num |-> IF b THEN 1 ELSE 0, str |-> "", members |-> {}]

\* a JavaScript array of the given items
List(items) ==
    [kind |-> "list", num |-> Len(items), str |-> "",
     members |-> {<<i, items[i]>> : i \in 1..Len(items)}]

\* obj.key : the member's value, undefined when the object has no such key
Get(obj, key) ==
    IF \E m \in obj.members : m[1] = key
    THEN (CHOOSE m \in obj.members : m[1] = key)[2]
    ELSE Undefined

Has(obj, key) == \E m \in obj.members : m[1] = key

\* obj[key] = value, replacing an earlier member of the same key
Put(obj, key, value) ==
    Obj({m \in obj.members : m[1] # key} \cup {<<key, value>>})

\* JavaScript truthiness, the test `a || b` applies to a
Truthy(v) ==
    CASE v.kind = "undefined" -> FALSE
      [] v.kind = "null" -> FALSE
      [] v.kind = "num" -> v.num # 0
      [] v.kind = "str" -> v.str # ""
      [] OTHER -> TRUE

\* a || b
OrElse(a, b) == IF Truthy(a) THEN a ELSE b

-----------------------------------------------------------------------------
(* Tokens of a reply text: [c, s, n] *)

Tok(c) == [c |-> c, s |-> "", n |-> 0]
LB == Tok("{")
RB == Tok("}")
Comma == Tok(",")
Word == Tok("word")
KeyTok(k) == [c |-> "key", s |-> k, n |-> 0]
NumTok(h) == [c |-> "num", s |-> "", n |-> h]
StrTok(s) == [c |-> "str", s |-> s, n |-> 0]
ArrTok(n) == [c |-> "arr", s |-> "", n |-> n]
NullTok == Tok("null")
LBracket == Tok("[")
RBracket == Tok("]")
TrueTok == Tok("true")
FalseTok == Tok("false")

\* JSON.stringify of a value built by the constructors above (keys in a fixed order)
KeyOrder ==
    <<"feasibility", "effort", "coordination", "recommendations", "risks",
      "confidence", "score", "technical", "challenges", "alternatives",
      "hours", "storyPoints", "complexity", "breakdown", "teams",
      "dependencies", "timeline", "criticalPath">>

RECURSIVE Serialize(_)
RECURSIVE SerializeMembers(_, _, _)
SerializeMembers(obj, i, first) ==
    IF i > Len(KeyOrder) THEN <<>>
    ELSE IF Has(obj, KeyOrder[i])
         THEN (IF first THEN <<>> ELSE <<Comma>>)
              \o <<KeyTok(KeyOrder[i])>> \o Serialize(Get(obj, KeyOrder[i]))
              \o SerializeMembers(obj, i + 1, FALSE)
         ELSE SerializeMembers(obj, i + 1, first)

Serialize(v) ==
    CASE v.kind = "obj" -> <<LB>> \o SerializeMembers(v, 1, TRUE) \o <<RB>>
      [] v.kind = "num" -> <<NumTok(v.num)>>
      [] v.kind = "str" -> <<StrTok(v.str)>>
      [] v.kind = "arr" -> <<ArrTok(v.num)>>
      [] OTHER -> <<NullTok>>

\* JSON.stringify of a payload: a member whose value is undefined is left
\* out, an undefined item of an array is written as null
PayloadKeyOrder ==
    <<"pages", "interactions", "id", "type", "fills", "children", "color", "opacity",
      "r", "g", "b", "states", "actions", "accessibility", "hasAltText", "focusable",
      "ariaLabel">>

RECURSIVE JSONStringify(_)
RECURSIVE StringifyMembers(_, _, _)
RECURSIVE StringifyItems(_, _)
StringifyMembers(obj, i, first) ==
    IF i > Len(PayloadKeyOrder) THEN <<>>
    ELSE IF Has(obj, PayloadKeyOrder[i]) /\ Get(obj, PayloadKeyOrder[i]).kind # "undefined"
         THEN (IF first THEN <<>> ELSE <<Comma>>)
              \o <<KeyTok(PayloadKeyOrder[i])>> \o JSONStringify(Get(obj, PayloadKeyOrder[i]))
              \o StringifyMembers(obj, i + 1, FALSE)
         ELSE StringifyMembers(obj, i + 1, first)

StringifyItems(list, i) ==
    IF i > list.num THEN <<>>
    ELSE (IF i = 1 THEN <<>> ELSE <<Comma>>)
         \o (IF Get(list, i).kind = "undefined" THEN <<NullTok>>
             ELSE JSONStringify(Get(list, i)))
         \o StringifyItems(list, i + 1)

JSONStringify(v) ==
    CASE v.kind = "obj" -> <<LB>> \o StringifyMembers(v, 1, TRUE) \o <<RB>>
      [] v.kind = "list" -> <<LBracket>> \o StringifyItems(v, 1) \o <<RBracket>>
      [] v.kind = "num" -> <<NumTok(v.num)>>
      [] v.kind = "str" -> <<StrTok(v.str)>>
      [] v.kind = "bool" -> <<IF v.num = 1 THEN TrueTok ELSE FalseTok>>
      [] OTHER -> <<NullTok>>

-----------------------------------------------------------------------------
(* responseText.match(/\{[\s\S]*\}/): greedy, first "{" to last "}" *)

NoMatch == <<>>

FirstIndex(text, t) ==
    IF \E i \in 1..Len(text) : text[i] = t
    THEN CHOOSE i \in 1..Len(text) : text[i] = t /\ \A j \in 1..(i - 1) : text[j] # t
    ELSE 0

LastIndex(text, t) ==
    IF \E i \in 1..Len(text) : text[i] = t
    THEN CHOOSE i \in 1..Len(text) : text[i] = t /\ \A j \in (i + 1)..Len(text) : text[j] # t
    ELSE 0

\* the lazy pattern /\{[\s\S]*?\}/ : first "{" to the first "}" after it
RegexMatch_Lazy(text) ==
    LET first == FirstIndex(text, LB)
        after == {i \in 1..Len(text) : i > first /\ text[i] = RB}
    IN IF first # 0 /\ after # {}
       THEN SubSeq(text, first, CHOOSE i \in after : \A j \in after : i <= j)
       ELSE NoMatch

RegexMatch(text) ==
    LET first == FirstIndex(text, LB)
        last == LastIndex(text, RB)
    IN IF first # 0 /\ last > first THEN SubSeq(text, first, last) ELSE NoMatch

-----------------------------------------------------------------------------
(* JSON.parse over tokens: value ::= object | array | scalar,              *)
(* object ::= "{" "}" | "{" key value ("," key value)* "}"                 *)
(* array ::= "[" "]" | "[" value ("," value)* "]"                          *)

ParseFail == [ok |-> FALSE, val |-> Undefined, next |-> 0]

RECURSIVE ParseValue(_, _)
RECURSIVE ParseMembers(_, _, _)
RECURSIVE ParseItems(_, _, _)

\* at toks[i]: a key, its value, then "," and more members, or "}"
ParseMembers(toks, i, acc) ==
    IF i + 1 > Len(toks) \/ toks[i].c # "key" THEN ParseFail
    ELSE LET v == ParseValue(toks, i + 1)
         IN IF ~v.ok \/ v.next > Len(toks) THEN ParseFail
            ELSE LET acc2 == Put(acc, toks[i].s, v.val)
                 IN IF toks[v.next] = RB
                    THEN [ok |-> TRUE, val |-> acc2, next |-> v.next + 1]
                    ELSE IF toks[v.next] = Comma
                         THEN ParseMembers(toks, v.next + 1, acc2)
                         ELSE ParseFail

\* at toks[i]: an item, then "," and more items, or "]"
ParseItems(toks, i, acc) ==
    LET v == ParseValue(toks, i)
    IN IF ~v.ok \/ v.next > Len(toks) THEN ParseFail
       ELSE IF toks[v.next] = RBracket
            THEN [ok |-> TRUE, val |-> List(Append(acc, v.val)), next |-> v.next + 1]
            ELSE IF toks[v.next] = Comma
                 THEN ParseItems(toks, v.next + 1, Append(acc, v.val))
                 ELSE ParseFail

ParseValue(toks, i) ==
    IF i > Len(toks) THEN ParseFail
    ELSE CASE toks[i].c = "{" ->
                IF i + 1 <= Len(toks) /\ toks[i + 1] = RB
                THEN [ok |-> TRUE, val |-> Obj({}), next |-> i + 2]
                ELSE ParseMembers(toks, i + 1, Obj({}))
           [] toks[i].c = "num" -> [ok |-> TRUE, val |-> Num(toks[i].n), next |-> i + 1]
           [] toks[i].c = "str" -> [ok |-> TRUE, val |-> Str(toks[i].s), next |-> i + 1]
           [] toks[i].c = "arr" -> [ok |-> TRUE, val |-> Arr(toks[i].n), next |-> i + 1]
           [] toks[i].c = "null" -> [ok |-> TRUE, val |-> Null, next |-> i + 1]
           [] toks[i].c = "[" ->
                IF i + 1 <= Len(toks) /\ toks[i + 1] = RBracket
                THEN [ok |-> TRUE, val |-> List(<<>>), next |-> i + 2]
                ELSE ParseItems(toks, i + 1, <<>>)
           [] toks[i].c = "true" -> [ok |-> TRUE, val |-> Bool(TRUE), next |-> i + 1]
           [] toks[i].c = "false" -> [ok |-> TRUE, val |-> Bool(FALSE), next |-> i + 1]
           [] OTHER -> ParseFail

\* JSON.parse(text): one value and nothing after it, else a SyntaxError
JSONParse(toks) ==
    LET r == ParseValue(toks, 1)
    IN IF r.ok /\ r.next = Len(toks) + 1
       THEN [ok |-> TRUE, val |-> r.val]
       ELSE [ok |-> FALSE, val |-> Undefined]

-----------------------------------------------------------------------------
(* parseClaudeResponse: the validator's defaults *)

DefaultFeasibility ==
    Obj({<<"score", Num(500)>>, <<"technical", Str("Analysis incomplete")>>,
         <<"challenges", Arr(0)>>, <<"alternatives", Arr(0)>>})

DefaultEffort ==
    Obj({<<"hours", Num(0)>>, <<"storyPoints", Num(0)>>,
         <<"complexity", Str("medium")>>, <<"breakdown", Arr(0)>>})

DefaultCoordination ==
    Obj({<<"teams", Arr(0)>>, <<"dependencies", Arr(0)>>,
         <<"timeline", Str("Unknown")>>, <<"criticalPath", Arr(0)>>})

DefaultRecommendations == Arr(0)
DefaultRisks == Arr(0)
DefaultConfidence == Num(50)

ResultFields ==
    {"feasibility", "effort", "coordination", "recommendations", "risks", "confidence"}

DefaultResult ==
    [feasibility |-> DefaultFeasibility, effort |-> DefaultEffort,
     coordination |-> DefaultCoordination, recommendations |-> DefaultRecommendations,
     risks |-> DefaultRisks, confidence |-> DefaultConfidence]

\* the sub-fields of the three object-valued fields (types.ts)
SubFields ==
    [feasibility |-> {"score", "technical", "challenges", "alternatives"},
     effort |-> {"hours", "storyPoints", "complexity", "breakdown"},
     coordination |-> {"teams", "dependencies", "timeline", "criticalPath"}]

\* `parsed.field || default`: how the validator fills one field
FillField(value, default) == OrElse(value, default)

\* the object literal returned at claude-api.ts:152-174
ValidateResponse(p) ==
    [feasibility |-> FillField(Get(p, "feasibility"), DefaultFeasibility),
     effort |-> FillField(Get(p, "effort"), DefaultEffort),
     coordination |-> FillField(Get(p, "coordination"), DefaultCoordination),
     recommendations |-> FillField(Get(p, "recommendations"), DefaultRecommendations),
     risks |-> FillField(Get(p, "risks"), DefaultRisks),
     confidence |-> FillField(Get(p, "confidence"), DefaultConfidence)]

NoResult == [f \in ResultFields |-> Undefined]
NoMessage == <<>>

Returned(r) == [threw |-> FALSE, message |-> NoMessage, result |-> r]
Threw(msg) == [threw |-> TRUE, message |-> msg, result |-> NoResult]
NotRun == [threw |-> FALSE, message |-> NoMessage, result |-> NoResult]

NoJsonMessage == <<"No valid JSON found in Claude response">>
SyntaxErrorMessage == <<"SyntaxError: Unexpected token in JSON">>
InvalidFormatMessage == <<"Invalid response format from Claude API">>

\* the catch block of parseClaudeResponse: whatever was thrown inside the try
\* (the "no JSON" error of line 146 included) is replaced by one fixed message
ParseCatch(inner) == InvalidFormatMessage

\* the return statement of parseClaudeResponse, reached once JSON.parse returned
ValidateStep_RejectPartial(p) ==
    IF \A f \in ResultFields : Has(p, f)
    THEN Returned(ValidateResponse(p))
    ELSE Threw(ParseCatch(<<"TypeError: missing field">>))
ValidateStep(p) == Returned(ValidateResponse(p))

parseClaudeResponse(text) ==
    LET m == RegexMatch(text)
    IN IF m = NoMatch THEN Threw(ParseCatch(NoJsonMessage))
       ELSE LET p == JSONParse(m)
            IN IF ~p.ok THEN Threw(ParseCatch(SyntaxErrorMessage))
               ELSE ValidateStep(p.val)

-----------------------------------------------------------------------------
(* analyzeDesign after fetch has settled; the UI's try/catch around it *)

\* thrown at claude-api.ts:38 for a response that is not ok
StatusMessage(h) == <<"Claude API error: ", h.status, " ", h.reason>>
FetchRejectMessage == <<"TypeError: Failed to fetch">>

\* the catch block of analyzeDesign
AnalyzeCatch(inner) == <<"Analysis failed: ">> \o inner

analyzeDesign(h, text) ==
    CASE h.kind = "reject" -> Threw(AnalyzeCatch(FetchRejectMessage))
      [] h.kind = "status" -> Threw(AnalyzeCatch(StatusMessage(h)))
      [] OTHER -> LET r == parseClaudeResponse(text)
                  IN IF r.threw THEN Threw(AnalyzeCatch(r.message)) ELSE r

\* setError(...) in the catch of the DESIGN_EXTRACTED handler (ui.tsx:309-311)
AnalysisFailedText ==
    <<"Failed to analyze design with Claude API. Please check your API key and try again.">>
UiCatch(inner) == AnalysisFailedText

-----------------------------------------------------------------------------
(* isValidApiKey *)

SkAntPrefix == <<"s", "k", "-", "a", "n", "t", "-">>
MinKeyLength == 20

\* String.prototype.startsWith
StartsWith(s, prefix) ==
    \A i \in 1..Len(prefix) : i <= Len(s) /\ s[i] = prefix[i]

isValidApiKey_AtLeast(key) == StartsWith(key, SkAntPrefix) /\ Len(key) >= MinKeyLength
isValidApiKey(key) == StartsWith(key, SkAntPrefix) /\ Len(key) > MinKeyLength

-----------------------------------------------------------------------------
(* Inputs of the analyzeDesign specification *)

FullFeasibility ==
    Obj({<<"score", Num(800)>>, <<"technical", Str("Highly feasible")>>,
         <<"challenges", Arr(2)>>, <<"alternatives", Arr(1)>>})
FullEffort ==
    Obj({<<"hours", Num(3200)>>, <<"storyPoints", Num(500)>>,
         <<"complexity", Str("high")>>, <<"breakdown", Arr(3)>>})

\* members an LLM reply may carry
MemberPool ==
    << <<"feasibility", FullFeasibility>>,
       <<"feasibility", Obj({<<"score", Num(700)>>})>>,
       <<"effort", FullEffort>>,
       <<"coordination", Obj({<<"timeline", Str("2-3 sprints")>>})>>,
       <<"recommendations", Arr(1)>>,
       <<"risks", Arr(0)>>,
       <<"confidence", Num(0)>>,
       <<"confidence", Num(85)>>,
       <<"confidence", Num(8500)>> >>

MemberChoices ==
    {S \in SUBSET (1..Len(MemberPool)) :
        /\ Cardinality(S) <= MaxMembers
        /\ \A i, j \in S : i # j => MemberPool[i][1] # MemberPool[j][1]}

ObjectOf(S) == Obj({MemberPool[i] : i \in S})

ReplyObjects == {ObjectOf(S) : S \in MemberChoices}
WellFormedBodies == {Serialize(o) : o \in ReplyObjects}

\* a well-formed object, or one cut short by up to MaxCut tokens
Bodies ==
    {SubSeq(b, 1, Len(b) - d) : b \in WellFormedBodies, d \in 0..MaxCut}

CommentaryTokens == {Word, LB, RB}
Commentary == UNION {[1..n -> CommentaryTokens] : n \in 0..MaxCommentary}

HttpOk == [kind |-> "ok", status |-> "200", reason |-> "OK"]
HttpFailures ==
    {[kind |-> "status", status |-> "401", reason |-> "Unauthorized"],
     [kind |-> "status", status |-> "500", reason |-> "Internal Server Error"],
     [kind |-> "reject", status |-> "", reason |-> ""]}

responseText == commentaryBefore \o body \o commentaryAfter

NotParsed == [ok |-> FALSE, val |-> Undefined]

InitA ==
    /\ \/ /\ http = HttpOk
          /\ commentaryBefore \in Commentary
          /\ body \in Bodies
          /\ commentaryAfter \in Commentary
       \/ /\ http \in HttpFailures
          /\ commentaryBefore = <<>>
          /\ body = <<>>
          /\ commentaryAfter = <<>>
    /\ pcA = "fetch"
    /\ span = NoMatch
    /\ parsed = NotParsed
    /\ parseOut = NotRun
    /\ apiOut = NotRun
    /\ shownError = NoMessage

IdleA ==
    /\ http = HttpOk
    /\ commentaryBefore = <<>>
    /\ body = <<>>
    /\ commentaryAfter = <<>>
    /\ pcA = "idle"
    /\ span = NoMatch
    /\ parsed = NotParsed
    /\ parseOut = NotRun
    /\ apiOut = NotRun
    /\ shownError = NoMessage

\* await fetch(...); if (!response.ok) throw ...   (claude-api.ts:18-39)
FetchSettles ==
    /\ pcA = "fetch"
    /\ IF http.kind = "ok"
       THEN /\ pcA' = "match"
            /\ apiOut' = apiOut
       ELSE /\ pcA' = "ui"
            /\ apiOut' = analyzeDesign(http, responseText)
    /\ UNCHANGED <<commentaryBefore, body, commentaryAfter, http, span, parsed,
                   parseOut, shownError>>
    /\ UNCHANGED notA

\* responseText.match(...); if (!jsonMatch) throw ...   (claude-api.ts:144-147)
MatchStep ==
    /\ pcA = "match"
    /\ span' = RegexMatch(responseText)
    /\ IF span' = NoMatch
       THEN /\ parseOut' = Threw(ParseCatch(NoJsonMessage))
            /\ apiOut' = Threw(AnalyzeCatch(parseOut'.message))
            /\ pcA' = "ui"
       ELSE /\ pcA' = "parse"
            /\ UNCHANGED <<parseOut, apiOut>>
    /\ UNCHANGED <<commentaryBefore, body, commentaryAfter, http, parsed, shownError>>
    /\ UNCHANGED notA

\* JSON.parse(jsonMatch[0])   (claude-api.ts:149)
ParseStep ==
    /\ pcA = "parse"
    /\ parsed' = JSONParse(span)
    /\ IF ~parsed'.ok
       THEN /\ parseOut' = Threw(ParseCatch(SyntaxErrorMessage))
            /\ apiOut' = Threw(AnalyzeCatch(parseOut'.message))
            /\ pcA' = "ui"
       ELSE /\ pcA' = "validate"
            /\ UNCHANGED <<parseOut, apiOut>>
    /\ UNCHANGED <<commentaryBefore, body, commentaryAfter, http, span, shownError>>
    /\ UNCHANGED notA

\* return { feasibility: parsed.feasibility || ..., ... }   (claude-api.ts:152-174)
ValidateAction ==
    /\ pcA = "validate"
    /\ parseOut' = ValidateStep(parsed.val)
    /\ apiOut' = IF parseOut'.threw THEN Threw(AnalyzeCatch(parseOut'.message)) ELSE parseOut'
    /\ pcA' = "ui"
    /\ UNCHANGED <<commentaryBefore, body, commentaryAfter, http, span, parsed, shownError>>
    /\ UNCHANGED notA

\* the DESIGN_EXTRACTED handler's continuation: setFeedback / setError
UiContinuation ==
    /\ pcA = "ui"
    /\ shownError' = IF apiOut.threw THEN UiCatch(apiOut.message) ELSE NoMessage
    /\ pcA' = "done"
    /\ UNCHANGED <<commentaryBefore, body, commentaryAfter, http, span, parsed,
                   parseOut, apiOut>>
    /\ UNCHANGED notA

-----------------------------------------------------------------------------
(* Inputs of the key-check specification *)

RECURSIVE Filler(_)
Filler(n) == IF n <= 0 THEN <<>> ELSE <<"x">> \o Filler(n - 1)

KeyHeads ==
    {SkAntPrefix,
     <<"s", "k", "-", "a", "n", "t">>,
     <<"p", "k", "-", "a", "n", "t", "-">>,
     <<"x">> \o SkAntPrefix,
     SkAntPrefix \o <<"s", "h", "o", "r", "t">>,
     <<>>}

KeyInputs ==
    UNION {{h \o Filler(n) : n \in 0..(MaxKeyLen - Len(h))} : h \in KeyHeads}

InitK ==
    /\ keyInput \in KeyInputs
    /\ keyVerdict = "unchecked"

IdleK ==
    /\ keyInput = <<>>
    /\ keyVerdict = "unchecked"

\* one call of ClaudeAPIService.isValidApiKey(keyInput)
CheckKey ==
    /\ keyVerdict = "unchecked"
    /\ keyVerdict' = IF isValidApiKey(keyInput) THEN "valid" ELSE "invalid"
    /\ UNCHANGED keyInput
    /\ UNCHANGED notK

-----------------------------------------------------------------------------
(* The document: scene nodes 1..n under one page; DesignExtractor *)

PageId == 0

\* containment trees over 1..n: a node's parent is the page or an earlier node
Documents ==
    UNION {{f \in [1..n -> 0..(n - 1)] : \A k \in 1..n : f[k] < k} : n \in 1..MaxNodes}

NodesOf(doc) == DOMAIN doc

RECURSIVE SortedSeq(_)
SortedSeq(S) ==
    IF S = {} THEN <<>>
    ELSE LET least == CHOOSE x \in S : \A y \in S : x <= y
         IN <<least>> \o SortedSeq(S \ {least})

\* node.children, in document order
ChildrenOf(doc, n) == SortedSeq({k \in NodesOf(doc) : doc[k] = n})

\* ordered sequences of distinct nodes, as a selection holds them
Selections(doc) ==
    UNION {{q \in [1..n -> NodesOf(doc)] : \A i, j \in 1..n : i # j => q[i] # q[j]} :
              n \in 0..MaxSel}

\* node.parent.type === 'PAGE'
ParentIsPage(doc, n) == doc[n] = PageId

\* extractNodeHierarchy(nodes): one record per node, children nested
\* (children is <<>> where the code leaves data.children unset)
RECURSIVE extractNodeHierarchy(_, _)
extractNodeHierarchy(doc, nodes) ==
    [i \in 1..Len(nodes) |->
        [id |-> nodes[i],
         children |-> extractNodeHierarchy(doc, ChildrenOf(doc, nodes[i]))]]

\* the ids of the records of a record forest
RECURSIVE RecordIds(_)
RecordIds(records) ==
    UNION {{records[i].id} \cup RecordIds(records[i].children) : i \in 1..Len(records)}

\* a node and everything below it
RECURSIVE Subtree(_, _)
Subtree(doc, n) ==
    {n} \cup UNION {Subtree(doc, k) : k \in {c \in NodesOf(doc) : doc[c] = n}}

\* a walk that pushes a node's children and then walks them as well
RECURSIVE getAllNodesInSelection_PushChildren(_, _)
getAllNodesInSelection_PushChildren(doc, nodes) ==
    IF nodes = <<>> THEN <<>>
    ELSE <<Head(nodes)>> \o ChildrenOf(doc, Head(nodes))
             \o getAllNodesInSelection_PushChildren(doc, ChildrenOf(doc, Head(nodes)))
             \o getAllNodesInSelection_PushChildren(doc, Tail(nodes))

\* getAllNodesInSelection(nodes): each node, then the walk of its children
RECURSIVE getAllNodesInSelection(_, _)
getAllNodesInSelection(doc, nodes) ==
    IF nodes = <<>> THEN <<>>
    ELSE <<Head(nodes)>> \o getAllNodesInSelection(doc, ChildrenOf(doc, Head(nodes)))
                        \o getAllNodesInSelection(doc, Tail(nodes))

\* getDescendantCount(node): the node itself plus the counts of its children
RECURSIVE getDescendantCount(_, _)
RECURSIVE SumDescendantCounts(_, _)
SumDescendantCounts(doc, nodes) ==
    IF nodes = <<>> THEN 0
    ELSE getDescendantCount(doc, Head(nodes)) + SumDescendantCounts(doc, Tail(nodes))
getDescendantCount(doc, n) == 1 + SumDescendantCounts(doc, ChildrenOf(doc, n))

\* the ids of a record forest in the order the records were pushed
RECURSIVE RecordSeq(_)
RecordSeq(records) ==
    IF records = <<>> THEN <<>>
    ELSE <<Head(records).id>> \o RecordSeq(Head(records).children)
                             \o RecordSeq(Tail(records))

NoSelectionMessage == <<"No design elements selected">>

\* the test of extractPageData's loop body: is a page entry pushed for node
PushesPage(doc, node, processed) ==
    ParentIsPage(doc, node) /\ PageId \notin processed

\* extractPageData as a whole: the loop over the selection from index i on
RECURSIVE extractPageData(_, _, _, _, _, _)
extractPageData(doc, sel, i, processed, built, read) ==
    IF i > Len(sel) THEN [pages |-> built, nodesRead |-> read]
    ELSE IF PushesPage(doc, sel[i], processed)
         THEN extractPageData(doc, sel, i + 1, processed \cup {PageId},
                  Append(built, [id |-> PageId,
                                 children |-> extractNodeHierarchy(doc, <<sel[i]>>)]),
                  read \cup Subtree(doc, sel[i]))
         ELSE extractPageData(doc, sel, i + 1, processed, built, read \cup {sel[i]})

\* extractDesignData as a whole: what it throws or returns, and what it read
extractDesignData(doc, sel) ==
    IF Len(sel) = 0
    THEN [out |-> NoSelectionMessage, pages |-> <<>>, nodesRead |-> {}]
    ELSE LET r == extractPageData(doc, sel, 1, {}, <<>>, {})
         IN [out |-> <<"returned">>, pages |-> r.pages, nodesRead |-> r.nodesRead]

InitX ==
    /\ docParent \in Documents
    /\ selection \in Selections(docParent)
    /\ pcX = "guard"
    /\ selIdx = 1
    /\ processedPages = {}
    /\ pages = <<>>
    /\ nodesRead = {}
    /\ extractOut = <<"running">>

IdleX ==
    /\ docParent = [k \in 1..1 |-> PageId]
    /\ selection = <<>>
    /\ pcX = "idle"
    /\ selIdx = 1
    /\ processedPages = {}
    /\ pages = <<>>
    /\ nodesRead = {}
    /\ extractOut = <<"running">>

\* if (selection.length === 0) throw new Error('No design elements selected')
ExtractGuard ==
    /\ pcX = "guard"
    /\ IF Len(selection) = 0
       THEN /\ pcX' = "failed"
            /\ extractOut' = extractDesignData(docParent, selection).out
       ELSE /\ pcX' = "pages"
            /\ extractOut' = extractOut
    /\ UNCHANGED <<docParent, selection, selIdx, processedPages, pages, nodesRead>>
    /\ UNCHANGED notX

\* one turn of `for (const node of selection)` in extractPageData
PageLoopStep ==
    /\ pcX = "pages"
    /\ selIdx <= Len(selection)
    /\ LET node == selection[selIdx]
       IN IF PushesPage(docParent, node, processedPages)
          THEN /\ processedPages' = processedPages \cup {PageId}
               /\ pages' = Append(pages,
                              [id |-> PageId,
                               children |-> extractNodeHierarchy(docParent, <<node>>)])
               /\ nodesRead' = nodesRead \cup Subtree(docParent, node)
          ELSE /\ nodesRead' = nodesRead \cup {node}
               /\ UNCHANGED <<processedPages, pages>>
    /\ selIdx' = selIdx + 1
    /\ UNCHANGED <<docParent, selection, pcX, extractOut>>
    /\ UNCHANGED notX

\* what the host throws when an accessor of a node fails: its own message,
\* which may or may not name the node
HostErrors == {<<"host error">>, <<"host error", "node id">>}

\* an accessor of a node throws during one of the seven steps: extractDesignData
\* has no try/catch, its promise rejects with the host's error as it is
AccessorThrows ==
    /\ pcX = "pages"
    /\ pcX' = "failed"
    /\ \E e \in HostErrors : extractOut' = e
    /\ UNCHANGED <<docParent, selection, selIdx, processedPages, pages, nodesRead>>
    /\ UNCHANGED notX

\* return pages; the remaining fields of the payload are assembled and returned
ExtractReturn ==
    /\ pcX = "pages"
    /\ selIdx > Len(selection)
    /\ pcX' = "done"
    /\ extractOut' = <<"returned">>
    /\ UNCHANGED <<docParent, selection, selIdx, processedPages, pages, nodesRead>>
    /\ UNCHANGED notX

-----------------------------------------------------------------------------
(* A document with node types; the side-collections of extractDesignData *)

\* instance.mainComponent is null
NoComponent == 0

SceneNode(type, layoutMode, name, main, axes) ==
    [type |-> type, layoutMode |-> layoutMode, name |-> name,
     mainComponent |-> main, variantAxes |-> axes]

\* 'layoutMode' in node && node.layoutMode !== 'NONE'
HasAutoLayout(node) == node.layoutMode \notin {"absent", "NONE"}

\* 'constraints' in node: groups and slices carry no constraints
HasConstraints(node) == node.type \notin {"GROUP", "SLICE"}

Min2(a, b) == IF a <= b THEN a ELSE b
MaxOf(S) == CHOOSE x \in S : \A y \in S : y <= x

\* node names, as sequences of characters
PlainName == <<"C", "a", "r", "d">>
ButtonName == <<"B", "u", "y", " ", "B", "t", "n">>

Upper ==
    <<"A", "B", "C", "D", "E", "F", "G", "H", "I", "J", "K", "L", "M",
      "N", "O", "P", "Q", "R", "S", "T", "U", "V", "W", "X", "Y", "Z">>
Lower ==
    <<"a", "b", "c", "d", "e", "f", "g", "h", "i", "j", "k", "l", "m",
      "n", "o", "p", "q", "r", "s", "t", "u", "v", "w", "x", "y", "z">>

\* String.prototype.toLowerCase, on the letters A to Z
ToLowerCase(name) ==
    [i \in 1..Len(name) |->
        IF \E k \in 1..Len(Upper) : Upper[k] = name[i]
        THEN Lower[CHOOSE k \in 1..Len(Upper) : Upper[k] = name[i]]
        ELSE name[i]]

Contains(name, pat) ==
    \E i \in 0..(Len(name) - Len(pat)) :
        \A j \in 1..Len(pat) : name[i + j] = pat[j]

\* /button|btn|click|press|submit|link|nav/i
buttonPatterns ==
    {<<"b", "u", "t", "t", "o", "n">>, <<"b", "t", "n">>,
     <<"c", "l", "i", "c", "k">>, <<"p", "r", "e", "s", "s">>,
     <<"s", "u", "b", "m", "i", "t">>, <<"l", "i", "n", "k">>, <<"n", "a", "v">>}

isInteractiveElement(node) ==
    \E pat \in buttonPatterns : Contains(ToLowerCase(node.name), pat)

\* getInteractiveType(node): the first test that the lower-cased name passes
getInteractiveType_LinkFirst(node) ==
    LET name == ToLowerCase(node.name)
    IN IF Contains(name, <<"b", "u", "t", "t", "o", "n">>) \/ Contains(name, <<"b", "t", "n">>)
       THEN "BUTTON"
       ELSE IF Contains(name, <<"l", "i", "n", "k">>)
       THEN "LINK"
       ELSE IF Contains(name, <<"i", "n", "p", "u", "t">>)
               \/ Contains(name, <<"f", "i", "e", "l", "d">>)
       THEN "INPUT"
       ELSE IF Contains(name, <<"f", "o", "r", "m">>)
       THEN "FORM"
       ELSE IF Contains(name, <<"n", "a", "v">>) \/ Contains(name, <<"m", "e", "n", "u">>)
       THEN "NAVIGATION"
       ELSE "BUTTON"
getInteractiveType(node) ==
    LET name == ToLowerCase(node.name)
    IN IF Contains(name, <<"b", "u", "t", "t", "o", "n">>) \/ Contains(name, <<"b", "t", "n">>)
       THEN "BUTTON"
       ELSE IF Contains(name, <<"i", "n", "p", "u", "t">>)
               \/ Contains(name, <<"f", "i", "e", "l", "d">>)
       THEN "INPUT"
       ELSE IF Contains(name, <<"l", "i", "n", "k">>)
       THEN "LINK"
       ELSE IF Contains(name, <<"f", "o", "r", "m">>)
       THEN "FORM"
       ELSE IF Contains(name, <<"n", "a", "v">>) \/ Contains(name, <<"m", "e", "n", "u">>)
       THEN "NAVIGATION"
       ELSE "BUTTON"

\* node.description: some node types have no such property
NoDescription == [in |-> FALSE, text |-> ""]
Description(text) == [in |-> TRUE, text |-> text]

\* extractInteractiveElements(selection): a record for each node that passes
\* isInteractiveElement, in the order of getAllNodesInSelection
extractInteractiveElements(par, recs, sel) ==
    LET allNodes == getAllNodesInSelection(par, sel)
        Passes(n) == isInteractiveElement(recs[n])
        kept == SelectSeq(allNodes, Passes)
        desc(n) == recs[n].description
    IN [i \in 1..Len(kept) |->
           Obj({<<"id", Num(kept[i])>>,
                <<"type", Str(getInteractiveType(recs[kept[i]]))>>,
                <<"states", List(<<Str("Default")>>)>>,
                <<"actions", List(<<>>)>>,
                <<"accessibility",
                  Obj({<<"hasAltText", Bool(desc(kept[i]).in /\ desc(kept[i]).text # "")>>,
                       <<"focusable", Bool(TRUE)>>,
                       <<"ariaLabel", IF desc(kept[i]).in THEN Str(desc(kept[i]).text)
                                      ELSE Undefined>>})>>})]

hasInteractiveElements(par, recs, nodes) ==
    \E n \in Range(getAllNodesInSelection(par, nodes)) : isInteractiveElement(recs[n])

\* calculateNestingDepth(node): parents up to, not including, the page
RECURSIVE calculateNestingDepth(_, _)
calculateNestingDepth(par, n) ==
    IF par[n] = PageId THEN 0 ELSE 1 + calculateNestingDepth(par, par[n])

\* isNestedInstance(instance): up the parents until there is none; the page
\* and the document above it are no instances
RECURSIVE isNestedInstance(_, _, _)
isNestedInstance_ParentOnly(par, recs, n) ==
    par[n] # PageId /\ recs[par[n]].type = "INSTANCE"
isNestedInstance(par, recs, n) ==
    IF par[n] = PageId THEN FALSE
    ELSE recs[par[n]].type = "INSTANCE" \/ isNestedInstance(par, recs, par[n])

\* findAllInstancesInSelection(nodes): a node that is an instance, then the
\* instances among its children, node after node
RECURSIVE findAllInstancesInSelection(_, _, _)
findAllInstancesInSelection(par, recs, nodes) ==
    IF nodes = <<>> THEN <<>>
    ELSE (IF recs[Head(nodes)].type = "INSTANCE" THEN <<Head(nodes)>> ELSE <<>>)
         \o findAllInstancesInSelection(par, recs, ChildrenOf(par, Head(nodes)))
         \o findAllInstancesInSelection(par, recs, Tail(nodes))

\* extractInstanceData(selection); componentId is mainComponent?.id || ''
extractInstanceData(par, recs, sel) ==
    LET allInstances == findAllInstancesInSelection(par, recs, sel)
    IN [i \in 1..Len(allInstances) |->
           [id |-> allInstances[i],
            componentId |-> recs[allInstances[i]].mainComponent,
            isNested |-> isNestedInstance(par, recs, allInstances[i]),
            depth |-> calculateNestingDepth(par, allInstances[i])]]

\* calculateComponentComplexity(component)
calculateComponentComplexity_ChildrenOnly(par, recs, comp) ==
    LET childCount == getDescendantCount(par, comp) - 1
        hasInteractions == hasInteractiveElements(par, recs, <<comp>>)
        variantCount == recs[comp].variantAxes
        structure == Min2(10, (childCount \div 5) + 1)
        interactions == IF hasInteractions THEN 3 ELSE 1
        variants == Min2(3, variantCount)
        overall == Min2(10, (structure + interactions + variants) \div 3)
    IN [structure |-> structure, interactions |-> interactions,
        variants |-> variants, overall |-> overall]
calculateComponentComplexity(par, recs, comp) ==
    LET childCount == getDescendantCount(par, comp)
        hasInteractions == hasInteractiveElements(par, recs, <<comp>>)
        variantCount == recs[comp].variantAxes
        structure == Min2(10, (childCount \div 5) + 1)
        interactions == IF hasInteractions THEN 3 ELSE 1
        variants == Min2(3, variantCount)
        overall == Min2(10, (structure + interactions + variants) \div 3)
    IN [structure |-> structure, interactions |-> interactions,
        variants |-> variants, overall |-> overall]

\* countComponentInstances(componentId)
countComponentInstances(recs, componentId) ==
    Cardinality({n \in DOMAIN recs :
                    /\ recs[n].type = "INSTANCE"
                    /\ recs[n].mainComponent = componentId})

\* figma.root.findAll(...): the matching nodes of the document, in document order
FindAll(par, recs, types) ==
    LET Matches(n) == recs[n].type \in types
    IN SelectSeq(getAllNodesInSelection(par, ChildrenOf(par, PageId)), Matches)

\* extractComponentData(): a record for each found node of type COMPONENT
extractComponentData(par, recs) ==
    LET localComponents == FindAll(par, recs, {"COMPONENT", "COMPONENT_SET"})
        IsComponent(n) == recs[n].type = "COMPONENT"
        kept == SelectSeq(localComponents, IsComponent)
    IN [i \in 1..Len(kept) |->
           [id |-> kept[i], type |-> "COMPONENT",
            instances |-> countComponentInstances(recs, kept[i]),
            complexity |-> calculateComponentComplexity(par, recs, kept[i])]]

constraintPatterns == <<"LEFT-TOP", "CENTER-CENTER">>

\* the composite score of analyzeLayoutComplexity from its four signals
\* (patterns / 2 is exact for the even pattern counts used here)
LayoutScore_Unscaled(nestingDepth, autoLayoutUsage, patterns, responsiveElements) ==
    1 + nestingDepth + autoLayoutUsage + patterns + responsiveElements
LayoutScore_Remainder(nestingDepth, autoLayoutUsage, patterns, responsiveElements) ==
    Min2(10, 1 + Min2(3, nestingDepth % 3)
               + Min2(2, autoLayoutUsage \div 5)
               + Min2(2, patterns \div 2)
               + Min2(2, responsiveElements \div 3))
LayoutScore(nestingDepth, autoLayoutUsage, patterns, responsiveElements) ==
    Min2(10, 1 + Min2(3, nestingDepth \div 3)
               + Min2(2, autoLayoutUsage \div 5)
               + Min2(2, patterns \div 2)
               + Min2(2, responsiveElements \div 3))

\* analyzeLayoutComplexity(selection), for a non-empty selection
analyzeLayoutComplexity(par, recs, sel) ==
    LET allNodes == getAllNodesInSelection(par, sel)
        nestingDepth ==
            MaxOf({calculateNestingDepth(par, allNodes[i]) : i \in 1..Len(allNodes)})
        autoLayoutUsage ==
            Cardinality({i \in 1..Len(allNodes) : HasAutoLayout(recs[allNodes[i]])})
        responsiveElements ==
            Cardinality({i \in 1..Len(allNodes) : HasConstraints(recs[allNodes[i]])})
    IN [nestingDepth |-> nestingDepth,
        autoLayoutUsage |-> autoLayoutUsage,
        constraintPatterns |-> constraintPatterns,
        responsiveElements |-> responsiveElements,
        score |-> LayoutScore(nestingDepth, autoLayoutUsage,
                              Len(constraintPatterns), responsiveElements)]

\* documents for the layout analysis: a chain of c containers, the last g of
\* them groups, with l leaves, the first t of them text nodes, under the
\* deepest container (on the page when there is none); the first a nodes of
\* the document are auto-layout frames
ChainScene(c, l, a, g, t) ==
    [parent |-> [k \in 1..(c + l) |-> IF k <= c THEN k - 1 ELSE c],
     nodes |-> [k \in 1..(c + l) |->
                  IF k <= a THEN SceneNode("FRAME", "VERTICAL", PlainName, NoComponent, 0)
                  ELSE IF k <= c - g THEN SceneNode("FRAME", "NONE", PlainName, NoComponent, 0)
                  ELSE IF k <= c THEN SceneNode("GROUP", "absent", PlainName, NoComponent, 0)
                  ELSE IF k <= c + t THEN SceneNode("TEXT", "absent", PlainName, NoComponent, 0)
                  ELSE SceneNode("SLICE", "absent", PlainName, NoComponent, 0)]]

ChainScenes ==
    {ChainScene(c, l, a, g, t) :
        c \in 0..MaxChain, l \in 0..MaxLeaves, a \in 0..MaxChain,
        g \in 0..MaxChain, t \in 0..MaxLeaves} \ {ChainScene(0, 0, 0, 0, 0)}

NoLayout == [score |-> 0]
NoComponents == <<>>
NoInstances == <<>>
NoInteractive == <<>>
NotReparsed == [ok |-> FALSE, val |-> Undefined]

IdleD ==
    /\ sceneParent = <<>>
    /\ sceneNodes = <<>>
    /\ sceneSelection = <<>>
    /\ pcD = "idle"
    /\ layout = NoLayout
    /\ components = NoComponents
    /\ instances = NoInstances
    /\ interactive = NoInteractive
    /\ payload = Undefined
    /\ reparsed = NotReparsed

InitL ==
    /\ \E sc \in ChainScenes :
          /\ sceneParent = sc.parent
          /\ sceneNodes = sc.nodes
          /\ \E s \in DOMAIN sc.parent : sceneSelection = <<s>>
    /\ pcD = "start"
    /\ layout = NoLayout
    /\ components = NoComponents
    /\ instances = NoInstances
    /\ interactive = NoInteractive
    /\ payload = Undefined
    /\ reparsed = NotReparsed

\* extractDesignData line 29: layout: await this.analyzeLayoutComplexity(selection)
AnalyzeLayout ==
    /\ pcD = "start"
    /\ layout' = analyzeLayoutComplexity(sceneParent, sceneNodes, sceneSelection)
    /\ pcD' = "done"
    /\ UNCHANGED <<sceneParent, sceneNodes, sceneSelection, components,
                   instances, interactive, payload, reparsed>>
    /\ UNCHANGED notD

\* documents for the component collection: every containment tree of up to
\* MaxSceneNodes nodes with a type for each node; one node at most carries a
\* button-like name, the instances share the main component m, and the
\* variants of a component set share their x variant properties
SceneTypes == {"FRAME", "COMPONENT", "COMPONENT_SET", "INSTANCE"}

SceneTrees ==
    UNION {{f \in [1..n -> 0..(n - 1)] : \A k \in 1..n : f[k] < k} : n \in 1..MaxSceneNodes}

IsVariant(par, typ, k) ==
    typ[k] = "COMPONENT" /\ par[k] # PageId /\ typ[par[k]] = "COMPONENT_SET"

WellTyped(par, typ) ==
    \A k \in DOMAIN par :
        /\ typ[k] = "COMPONENT_SET" => \E c \in DOMAIN par : par[c] = k
        /\ par[k] # PageId =>
              /\ typ[par[k]] = "COMPONENT_SET" => typ[k] = "COMPONENT"
              /\ typ[k] = "COMPONENT_SET" => typ[par[k]] = "FRAME"

ComponentScene(par, typ, b, m, x) ==
    [parent |-> par,
     nodes |-> [k \in DOMAIN par |->
                  SceneNode(typ[k],
                            "NONE",
                            IF k = b THEN ButtonName ELSE PlainName,
                            IF typ[k] = "INSTANCE" THEN m ELSE NoComponent,
                            IF IsVariant(par, typ, k) THEN x ELSE 0)]]

\* a scene with w further plain frames as the last children of node e
WideScene(sc, e, w) ==
    [parent |-> sc.parent \o [k \in 1..w |-> e],
     nodes |-> sc.nodes \o
               [k \in 1..w |-> SceneNode("FRAME", "NONE", PlainName, NoComponent, 0)]]

\* the documents above and, for those of one or two nodes, the same with up
\* to MaxExtra leaf frames inside their first component
InitC ==
    /\ \E par \in SceneTrees :
       \E typ \in [DOMAIN par -> SceneTypes] :
          /\ WellTyped(par, typ)
          /\ \E b, m \in 0..Len(par) :
                /\ m # NoComponent =>
                      /\ typ[m] = "COMPONENT"
                      /\ \E k \in DOMAIN par : typ[k] = "INSTANCE"
                /\ \E x \in 1..MaxAxes :
                      /\ x > 1 => \E k \in DOMAIN par : IsVariant(par, typ, k)
                      /\ \E w \in (IF Len(par) <= 2 THEN 0..MaxExtra ELSE {0}) :
                         \E e \in (IF w = 0 THEN {1}
                                   ELSE {k \in DOMAIN par :
                                           /\ typ[k] = "COMPONENT"
                                           /\ \A j \in 1..(k - 1) : typ[j] # "COMPONENT"}) :
                            /\ sceneParent =
                                  WideScene(ComponentScene(par, typ, b, m, x), e, w).parent
                            /\ sceneNodes =
                                  WideScene(ComponentScene(par, typ, b, m, x), e, w).nodes
    /\ sceneSelection = <<1>>
    /\ pcD = "start"
    /\ layout = NoLayout
    /\ components = NoComponents
    /\ instances = NoInstances
    /\ interactive = NoInteractive
    /\ payload = Undefined
    /\ reparsed = NotReparsed

\* documents for the instance collection: every containment tree of up to
\* MaxSceneNodes nodes, each a frame or an instance, and one selected node
InitN ==
    /\ \E par \in SceneTrees :
       \E typ \in [DOMAIN par -> {"FRAME", "INSTANCE"}] :
       \E s \in DOMAIN par :
          /\ sceneParent = par
          /\ sceneNodes = [k \in DOMAIN par |->
                              SceneNode(typ[k], "NONE", PlainName, NoComponent, 0)]
          /\ sceneSelection = <<s>>
    /\ pcD = "start"
    /\ layout = NoLayout
    /\ components = NoComponents
    /\ instances = NoInstances
    /\ interactive = NoInteractive
    /\ payload = Undefined
    /\ reparsed = NotReparsed

\* extractDesignData line 24: instances: await this.extractInstanceData(selection)
ExtractInstances ==
    /\ pcD = "start"
    /\ instances' = extractInstanceData(sceneParent, sceneNodes, sceneSelection)
    /\ pcD' = "done"
    /\ UNCHANGED <<sceneParent, sceneNodes, sceneSelection, layout, components,
                   interactive, payload, reparsed>>
    /\ UNCHANGED notD

\* layer names a designer may give
NamePool ==
    {<<"C", "a", "r", "d">>,
     <<"B", "u", "y", " ", "B", "t", "n">>,
     <<"B", "U", "T", "T", "O", "N">>,
     <<"C", "l", "i", "c", "k">>,
     <<"P", "r", "e", "s", "s">>,
     <<"S", "u", "b", "m", "i", "t">>,
     <<"S", "u", "b", "m", "i", "t", " ", "f", "o", "r", "m">>,
     <<"L", "i", "n", "k", " ", "i", "n", "p", "u", "t">>,
     <<"N", "a", "v", " ", "l", "i", "n", "k">>,
     <<"N", "a", "v">>,
     <<"M", "e", "n", "u">>,
     <<"I", "n", "p", "u", "t", " ", "f", "i", "e", "l", "d">>,
     <<"P", "r", "e", "s", "s", " ", "m", "e", "n", "u">>,
     <<"F", "o", "r", "m", " ", "b", "t", "n">>}

MaxNamed == 2           \* nodes of a document with named layers

\* a plain frame with a name, a description and fills
NamedNode(name, description, fills) ==
    [type |-> "FRAME", layoutMode |-> "NONE", name |-> name,
     mainComponent |-> NoComponent, variantAxes |-> 0,
     description |-> description, fills |-> fills]

NoFills == [in |-> FALSE, paints |-> <<>>]

NamedTrees ==
    UNION {{f \in [1..n -> 0..(n - 1)] : \A k \in 1..n : f[k] < k} : n \in 1..MaxNamed}

\* documents for the interactive elements: every containment tree of up to
\* MaxNamed frames, each with a name of the pool, and one selected node
InitE ==
    /\ \E par \in NamedTrees :
       \E nm \in [DOMAIN par -> NamePool] :
       \E s \in DOMAIN par :
          /\ sceneParent = par
          /\ sceneNodes = [k \in DOMAIN par |-> NamedNode(nm[k], NoDescription, NoFills)]
          /\ sceneSelection = <<s>>
    /\ pcD = "start"
    /\ layout = NoLayout
    /\ components = NoComponents
    /\ instances = NoInstances
    /\ interactive = NoInteractive
    /\ payload = Undefined
    /\ reparsed = NotReparsed

\* paints of a node: a solid paint carries a color, a gradient does not
SolidPaint ==
    [type |-> "SOLID",
     color |-> Obj({<<"r", Num(100)>>, <<"g", Num(0)>>, <<"b", Num(0)>>}),
     opacity |-> Num(100)]
GradientPaint == [type |-> "GRADIENT_LINEAR", color |-> Undefined, opacity |-> Num(50)]

Fills(paints) == [in |-> TRUE, paints |-> paints]

FillChoices ==
    {NoFills, Fills(<<>>), Fills(<<SolidPaint>>), Fills(<<GradientPaint>>),
     Fills(<<SolidPaint, GradientPaint>>)}

DescriptionChoices == {NoDescription, Description(""), Description("Primary action")}

\* extractNodeHierarchy(nodes), with the fills of lines 90-97 and the children
\* of lines 115-117
RECURSIVE NodeData(_, _, _)
RECURSIVE NodeDataSeq(_, _, _)
NodeDataSeq(par, recs, nodes) ==
    IF nodes = <<>> THEN <<>>
    ELSE <<NodeData(par, recs, Head(nodes))>> \o NodeDataSeq(par, recs, Tail(nodes))

NodeData(par, recs, n) ==
    LET paints == recs[n].fills.paints
        fills ==
            List([i \in 1..Len(paints) |->
                    Obj({<<"type", Str(paints[i].type)>>,
                         <<"color", IF paints[i].type = "SOLID" THEN paints[i].color
                                    ELSE Undefined>>,
                         <<"opacity", paints[i].opacity>>})])
        children == ChildrenOf(par, n)
    IN Obj({<<"id", Num(n)>>, <<"type", Str(recs[n].type)>>}
           \cup (IF recs[n].fills.in THEN {<<"fills", fills>>} ELSE {})
           \cup (IF children # <<>>
                 THEN {<<"children", List(NodeDataSeq(par, recs, children))>>}
                 ELSE {}))

\* documents for the serialized payload: the containment trees of named
\* frames, one node of which has a button-like name or not, a description or
\* none and some fills or none
InitR ==
    /\ \E par \in NamedTrees :
       \E k \in DOMAIN par :
       \E nm \in {PlainName, ButtonName} :
       \E d \in DescriptionChoices :
       \E f \in FillChoices :
       \E s \in DOMAIN par :
          /\ sceneParent = par
          /\ sceneNodes = [j \in DOMAIN par |->
                              IF j = k THEN NamedNode(nm, d, f)
                              ELSE NamedNode(PlainName, NoDescription, NoFills)]
          /\ sceneSelection = <<s>>
    /\ pcD = "start"
    /\ layout = NoLayout
    /\ components = NoComponents
    /\ instances = NoInstances
    /\ interactive = NoInteractive
    /\ payload = Undefined
    /\ reparsed = NotReparsed

\* extractDesignData lines 21-31: analysisData, its node records and its
\* interactive elements
AssemblePayload ==
    /\ pcD = "start"
    /\ payload' =
          Obj({<<"pages", List(NodeDataSeq(sceneParent, sceneNodes, sceneSelection))>>,
               <<"interactions",
                 List(extractInteractiveElements(sceneParent, sceneNodes, sceneSelection))>>})
    /\ pcD' = "assembled"
    /\ UNCHANGED <<sceneParent, sceneNodes, sceneSelection, layout, components,
                   instances, interactive, reparsed>>
    /\ UNCHANGED notD

\* JSON.stringify(designData), and JSON.parse of the text
SerializeAndParse ==
    /\ pcD = "assembled"
    /\ reparsed' = JSONParse(JSONStringify(payload))
    /\ pcD' = "done"
    /\ UNCHANGED <<sceneParent, sceneNodes, sceneSelection, layout, components,
                   instances, interactive, payload>>
    /\ UNCHANGED notD

\* extractDesignData line 26: interactions: await this.extractInteractiveElements(selection)
ExtractInteractive ==
    /\ pcD = "start"
    /\ interactive' = extractInteractiveElements(sceneParent, sceneNodes, sceneSelection)
    /\ pcD' = "done"
    /\ UNCHANGED <<sceneParent, sceneNodes, sceneSelection, layout, components,
                   instances, payload, reparsed>>
    /\ UNCHANGED notD

\* extractDesignData line 23: components: await this.extractComponentData()
ExtractComponents ==
    /\ pcD = "start"
    /\ components' = extractComponentData(sceneParent, sceneNodes)
    /\ pcD' = "done"
    /\ UNCHANGED <<sceneParent, sceneNodes, sceneSelection, layout,
                   instances, interactive, payload, reparsed>>
    /\ UNCHANGED notD

-----------------------------------------------------------------------------
(* ClaudeAPIService.buildAnalysisPrompt *)

\* images of a payload: [description, data]
ImagePool == {[description |-> d, data |-> d] : d \in {"frame", "detail", "flow"}}

\* designData.images: optional, so possibly undefined
NoImages == [present |-> FALSE, list |-> <<>>]
ImageLists ==
    {[present |-> TRUE, list |-> l] : l \in UNION {[1..n -> ImagePool] : n \in 0..MaxImages}}

\* the number of images attached at most
AttachedImages == 3

TextBlock(text) == [type |-> "text", text |-> text, data |-> ""]
ImageBlock(data) == [type |-> "image", text |-> "", data |-> data]

\* images.slice(0, n)
Slice(seq, n) == SubSeq(seq, 1, Min2(n, Len(seq)))

\* the blocks pushed for the images handed to forEach
RECURSIVE ImageBlocks(_)
ImageBlocks(imgs) ==
    IF imgs = <<>> THEN <<>>
    ELSE <<TextBlock("VISUAL CONTEXT - " \o Head(imgs).description),
           ImageBlock(Head(imgs).data)>> \o ImageBlocks(Tail(imgs))

buildAnalysisPrompt_AllImages(imgs) ==
    <<TextBlock("DESIGN DATA")>>
        \o (IF imgs.present /\ Len(imgs.list) > 0 THEN ImageBlocks(imgs.list) ELSE <<>>)
buildAnalysisPrompt(imgs) ==
    <<TextBlock("DESIGN DATA")>>
        \o (IF imgs.present /\ Len(imgs.list) > 0
            THEN ImageBlocks(Slice(imgs.list, AttachedImages))
            ELSE <<>>)

IdleP ==
    /\ images = NoImages
    /\ pcP = "idle"
    /\ content = <<>>

InitP ==
    /\ images \in ImageLists \cup {NoImages}
    /\ pcP = "start"
    /\ content = <<>>

\* analyzeDesign line 16: const prompt = this.buildAnalysisPrompt(...)
BuildPrompt ==
    /\ pcP = "start"
    /\ content' = buildAnalysisPrompt(images)
    /\ pcP' = "done"
    /\ UNCHANGED images
    /\ UNCHANGED notP

-----------------------------------------------------------------------------
(* The Plugin component (ui.tsx), the main thread (main.ts), their messages *)

EmptyKey == <<>>
ShortKey == SkAntPrefix \o <<"s", "h", "o", "r", "t">>
ValidKeyA == SkAntPrefix \o Filler(14)
ValidKeyB == SkAntPrefix \o Filler(15)
\* the prefix and thirteen more characters: MinKeyLength characters in all
MinLengthKey == SkAntPrefix \o Filler(MinKeyLength - Len(SkAntPrefix))
\* what the user leaves in the Textbox: a key being typed, one character more
\* at a time
UIKeys == {MinLengthKey, ValidKeyA}

ProvideKeyText == <<"Please provide a valid Claude API key">>
InvalidFormatText ==
    <<"Invalid API key format. Claude API keys must start with \"sk-ant-\" and be at least 20 characters long.">>
SaveFailedText == <<"Failed to save API key. Please try again.">>
NoSelectionText == <<"Please select a design element to analyze">>

NoFeedback == NoResult

Msg(type, key, flag, att, layers) ==
    [type |-> type, key |-> key, flag |-> flag, attempt |-> att, layers |-> layers]

\* `!apiKey || !ClaudeAPIService.isValidApiKey(apiKey)` negated: the key passes
KeyAccepted(k) == k # EmptyKey /\ isValidApiKey(k)

\* the test a DESIGN_EXTRACTED listener applies to the key it captured
ListenerKeyAccepted_Unchecked(k) == TRUE
ListenerKeyAccepted(k) == KeyAccepted(k)

\* the replies a fetch may settle with
UiReplies ==
    {[h |-> HttpOk, text |-> <<Word>> \o Serialize(ObjectOf({1, 8})) \o <<Word>>],
     [h |-> HttpOk, text |-> <<Word, Word>>],
     [h |-> [kind |-> "status", status |-> "401", reason |-> "Unauthorized"], text |-> <<>>]}

\* main.ts getLayerCount(node)
RECURSIVE getLayerCount(_, _)
RECURSIVE SumLayers(_, _)
SumLayers(doc, nodes) ==
    IF nodes = <<>> THEN 0
    ELSE getLayerCount(doc, Head(nodes)) + SumLayers(doc, Tail(nodes))
getLayerCount(doc, n) == 1 + SumLayers(doc, ChildrenOf(doc, n))

\* handleAnalyzeSelection: the events it emits for the current selection
handleAnalyzeSelection_NoGuard(doc, sel, att) ==
    <<Msg("DESIGN_EXTRACTED", EmptyKey, FALSE, att,
          IF Len(sel) = 0 THEN 0 ELSE getLayerCount(doc, sel[1]))>>
handleAnalyzeSelection(doc, sel, att) ==
    IF Len(sel) = 0
    THEN <<Msg("NO_SELECTION", EmptyKey, FALSE, att, 0)>>
    ELSE <<Msg("DESIGN_EXTRACTED", EmptyKey, FALSE, att, getLayerCount(doc, sel[1]))>>

UiDocument == [k \in 1..1 |-> PageId]

\* the state after the component's first render and first run of its effect
InitU ==
    /\ apiKey = EmptyKey
    /\ showApiKeyInput = FALSE
    /\ isAnalyzing = FALSE
    /\ isExtracting = FALSE
    /\ feedback = NoFeedback
    /\ error = NoMessage
    /\ handlers = <<EmptyKey>>
    /\ toMain = <<Msg("GET_API_KEY", EmptyKey, FALSE, 0, 0)>>
    /\ toUI = <<>>
    /\ savedKey \in {EmptyKey, ShortKey, ValidKeyB}
    /\ inflight = {}
    /\ closed = FALSE
    /\ attempt = 0
    /\ handledEmpty = {}
    /\ emitted = {}
    /\ posts = {}

IdleU ==
    /\ apiKey = EmptyKey
    /\ showApiKeyInput = FALSE
    /\ isAnalyzing = FALSE
    /\ isExtracting = FALSE
    /\ feedback = NoFeedback
    /\ error = NoMessage
    /\ handlers = <<>>
    /\ toMain = <<>>
    /\ toUI = <<>>
    /\ savedKey = EmptyKey
    /\ inflight = {}
    /\ closed = TRUE
    /\ attempt = 0
    /\ handledEmpty = {}
    /\ emitted = {}
    /\ posts = {}

\* setApiKey(k) with k # apiKey: re-render, then the effect of [apiKey] runs:
\* emit('GET_API_KEY') and one more set of listeners, none removed
KeyChanges(k) ==
    /\ apiKey' = k
    /\ handlers' = Append(handlers, k)
    /\ toMain' = Append(toMain, Msg("GET_API_KEY", EmptyKey, FALSE, 0, 0))

\* Textbox onValueInput={setApiKey}
TypeKey ==
    /\ ~closed
    /\ showApiKeyInput
    /\ Len(handlers) < MaxHandlers
    /\ \E k \in UIKeys \ {apiKey} : KeyChanges(k)
    /\ UNCHANGED <<showApiKeyInput, isAnalyzing, isExtracting, feedback, error, toUI,
                   savedKey, inflight, closed, attempt, handledEmpty, emitted, posts>>
    /\ UNCHANGED <<selection, notU>>

\* handleAnalyze, behind the button's disabled condition
ClickAnalyze ==
    /\ ~closed
    /\ ~(isAnalyzing \/ isExtracting \/ showApiKeyInput)
    /\ IF ~KeyAccepted(apiKey)
       THEN /\ error' = ProvideKeyText
            /\ showApiKeyInput' = TRUE
            /\ UNCHANGED <<isAnalyzing, isExtracting, feedback, toMain, attempt>>
       ELSE /\ attempt < MaxAttempts
            /\ isAnalyzing' = TRUE
            /\ isExtracting' = TRUE
            /\ error' = NoMessage
            /\ feedback' = NoFeedback
            /\ attempt' = attempt + 1
            /\ toMain' = Append(toMain, Msg("ANALYZE_SELECTION", EmptyKey, FALSE, attempt + 1, 0))
            /\ UNCHANGED showApiKeyInput
    /\ UNCHANGED <<apiKey, handlers, toUI, savedKey, inflight, closed, handledEmpty,
                   emitted, posts>>
    /\ UNCHANGED <<selection, notU>>

\* handleApiKeySubmit
ClickSaveKey ==
    /\ ~closed
    /\ showApiKeyInput
    /\ IF isValidApiKey(apiKey)
       THEN /\ Len(toMain) + Len(toUI) < MaxQueue
            /\ toMain' = Append(toMain, Msg("SAVE_API_KEY", apiKey, FALSE, 0, 0))
            /\ UNCHANGED error
       ELSE /\ error' = InvalidFormatText
            /\ UNCHANGED toMain
    /\ UNCHANGED <<apiKey, showApiKeyInput, isAnalyzing, isExtracting, feedback, handlers,
                   toUI, savedKey, inflight, closed, attempt, handledEmpty, emitted, posts>>
    /\ UNCHANGED <<selection, notU>>

\* handleShowApiKeyInput, the "Change" link
ClickChange ==
    /\ ~closed
    /\ ~showApiKeyInput
    /\ apiKey # EmptyKey
    /\ showApiKeyInput' = TRUE
    /\ UNCHANGED <<apiKey, isAnalyzing, isExtracting, feedback, error, handlers, toMain,
                   toUI, savedKey, inflight, closed, attempt, handledEmpty, emitted, posts>>
    /\ UNCHANGED <<selection, notU>>

\* handleClose
ClickClose ==
    /\ ~closed
    /\ Len(toMain) + Len(toUI) < MaxQueue
    /\ toMain' = Append(toMain, Msg("CLOSE_PLUGIN", EmptyKey, FALSE, 0, 0))
    /\ UNCHANGED <<apiKey, showApiKeyInput, isAnalyzing, isExtracting, feedback, error,
                   handlers, toUI, savedKey, inflight, closed, attempt, handledEmpty,
                   emitted, posts>>
    /\ UNCHANGED <<selection, notU>>

\* the user changes the selection on the canvas
UserSelects ==
    /\ ~closed
    /\ \E sel \in Selections(docParent) \ {selection} : selection' = sel
    /\ UNCHANGED varsU
    /\ UNCHANGED notU

\* main: on('ANALYZE_SELECTION', handleAnalyzeSelection). The handler is an
\* async function without try/catch: when an accessor of the selected node
\* throws while designData is built, its promise rejects and nothing is emitted
MainAnalyzeSelection ==
    /\ ~closed
    /\ toMain # <<>>
    /\ Head(toMain).type = "ANALYZE_SELECTION"
    /\ \E accessorThrows \in BOOLEAN :
       LET att == Head(toMain).attempt
           events == IF accessorThrows /\ Len(selection) > 0
                     THEN <<>>
                     ELSE handleAnalyzeSelection(docParent, selection, att)
       IN /\ toUI' = toUI \o events
          /\ emitted' = emitted \cup
                {[attempt |-> att, type |-> events[i].type] : i \in 1..Len(events)}
          /\ handledEmpty' = IF Len(selection) = 0 THEN handledEmpty \cup {att}
                             ELSE handledEmpty
    /\ toMain' = Tail(toMain)
    /\ UNCHANGED <<apiKey, showApiKeyInput, isAnalyzing, isExtracting, feedback, error,
                   handlers, savedKey, inflight, closed, attempt, posts>>
    /\ UNCHANGED <<selection, notU>>

\* main: on('CLOSE_PLUGIN', handleClosePlugin)
MainClose ==
    /\ ~closed
    /\ toMain # <<>>
    /\ Head(toMain).type = "CLOSE_PLUGIN"
    /\ closed' = TRUE
    /\ toMain' = Tail(toMain)
    /\ UNCHANGED <<apiKey, showApiKeyInput, isAnalyzing, isExtracting, feedback, error,
                   handlers, toUI, savedKey, inflight, attempt, handledEmpty, emitted, posts>>
    /\ UNCHANGED <<selection, notU>>

\* the host answers GET_API_KEY with the stored credential
MainGetKey ==
    /\ ~closed
    /\ toMain # <<>>
    /\ Head(toMain).type = "GET_API_KEY"
    /\ toUI' = Append(toUI, Msg("API_KEY_RETRIEVED", savedKey, FALSE, 0, 0))
    /\ toMain' = Tail(toMain)
    /\ UNCHANGED <<apiKey, showApiKeyInput, isAnalyzing, isExtracting, feedback, error,
                   handlers, savedKey, inflight, closed, attempt, handledEmpty, emitted, posts>>
    /\ UNCHANGED <<selection, notU>>

\* the host answers SAVE_API_KEY: stored, or not
MainSaveKey ==
    /\ ~closed
    /\ toMain # <<>>
    /\ Head(toMain).type = "SAVE_API_KEY"
    /\ \E success \in BOOLEAN :
          /\ savedKey' = IF success THEN Head(toMain).key ELSE savedKey
          /\ toUI' = Append(toUI, Msg("API_KEY_SAVED", EmptyKey, success, 0, 0))
    /\ toMain' = Tail(toMain)
    /\ UNCHANGED <<apiKey, showApiKeyInput, isAnalyzing, isExtracting, feedback, error,
                   handlers, inflight, closed, attempt, handledEmpty, emitted, posts>>
    /\ UNCHANGED <<selection, notU>>

\* UI: on('API_KEY_RETRIEVED', ...), run by every set of listeners alike
OnApiKeyRetrieved ==
    /\ ~closed
    /\ toUI # <<>>
    /\ Head(toUI).type = "API_KEY_RETRIEVED"
    /\ LET saved == Head(toUI).key
       IN IF saved # EmptyKey /\ isValidApiKey(saved)
          THEN /\ showApiKeyInput' = FALSE
               /\ IF saved # apiKey
                  THEN /\ Len(handlers) < MaxHandlers
                       /\ KeyChanges(saved)
                  ELSE UNCHANGED <<apiKey, handlers, toMain>>
          ELSE /\ showApiKeyInput' = TRUE
               /\ UNCHANGED <<apiKey, handlers, toMain>>
    /\ toUI' = Tail(toUI)
    /\ UNCHANGED <<isAnalyzing, isExtracting, feedback, error, savedKey, inflight, closed,
                   attempt, handledEmpty, emitted, posts>>
    /\ UNCHANGED <<selection, notU>>

\* UI: on('API_KEY_SAVED', ...)
OnApiKeySaved ==
    /\ ~closed
    /\ toUI # <<>>
    /\ Head(toUI).type = "API_KEY_SAVED"
    /\ IF Head(toUI).flag
       THEN /\ showApiKeyInput' = FALSE
            /\ error' = NoMessage
       ELSE /\ error' = SaveFailedText
            /\ UNCHANGED showApiKeyInput
    /\ toUI' = Tail(toUI)
    /\ UNCHANGED <<apiKey, isAnalyzing, isExtracting, feedback, handlers, toMain, savedKey,
                   inflight, closed, attempt, handledEmpty, emitted, posts>>
    /\ UNCHANGED <<selection, notU>>

\* UI: on('NO_SELECTION', ...)
OnNoSelection ==
    /\ ~closed
    /\ toUI # <<>>
    /\ Head(toUI).type = "NO_SELECTION"
    /\ error' = NoSelectionText
    /\ isAnalyzing' = FALSE
    /\ isExtracting' = FALSE
    /\ toUI' = Tail(toUI)
    /\ UNCHANGED <<apiKey, showApiKeyInput, feedback, handlers, toMain, savedKey, inflight,
                   closed, attempt, handledEmpty, emitted, posts>>
    /\ UNCHANGED <<selection, notU>>

\* UI: on('DESIGN_EXTRACTED', ...): every registered listener runs, in the order
\* of registration, each with the apiKey it captured, up to its first await.
\* A listener whose key fails the test sets error, showApiKeyInput, isAnalyzing;
\* one whose key passes calls analyzeDesign, which issues the POST.
OnDesignExtracted ==
    /\ ~closed
    /\ toUI # <<>>
    /\ Head(toUI).type = "DESIGN_EXTRACTED"
    /\ LET att == Head(toUI).attempt
           passing == {i \in 1..Len(handlers) : ListenerKeyAccepted(handlers[i])}
           failing == (1..Len(handlers)) \ passing
       IN /\ isExtracting' = FALSE
          /\ IF failing # {}
             THEN /\ error' = ProvideKeyText
                  /\ showApiKeyInput' = TRUE
                  /\ isAnalyzing' = FALSE
             ELSE UNCHANGED <<error, showApiKeyInput, isAnalyzing>>
          /\ inflight' = inflight \cup
                {[gen |-> i, key |-> handlers[i], attempt |-> att] : i \in passing}
          /\ posts' = posts \cup
                {[gen |-> i, key |-> handlers[i], attempt |-> att, current |-> apiKey] :
                    i \in passing}
    /\ toUI' = Tail(toUI)
    /\ UNCHANGED <<apiKey, feedback, handlers, toMain, savedKey, closed, attempt,
                   handledEmpty, emitted>>
    /\ UNCHANGED <<selection, notU>>

\* a fetch settles and its listener continues: setFeedback/setError, finally
FetchResolves ==
    /\ ~closed
    /\ \E f \in inflight, r \in UiReplies :
          LET out == analyzeDesign(r.h, r.text)
          IN /\ IF out.threw
                THEN /\ error' = UiCatch(out.message)
                     /\ UNCHANGED feedback
                ELSE /\ feedback' = out.result
                     /\ error' = NoMessage
             /\ inflight' = inflight \ {f}
    /\ isAnalyzing' = FALSE
    /\ UNCHANGED <<apiKey, showApiKeyInput, isExtracting, handlers, toMain, toUI, savedKey,
                   closed, attempt, handledEmpty, emitted, posts>>
    /\ UNCHANGED <<selection, notU>>

-----------------------------------------------------------------------------
(* Specifications *)

vars == <<varsA, varsK, varsX, varsU, varsD, varsP>>

InitAnalyze ==
    /\ InitA
    /\ IdleK
    /\ IdleX
    /\ IdleU
    /\ IdleD
    /\ IdleP

NextA ==
    \/ FetchSettles
    \/ MatchStep
    \/ ParseStep
    \/ ValidateAction
    \/ UiContinuation

\* one analyzeDesign call on every reply of the input set
SpecAnalyze == InitAnalyze /\ [][NextA]_vars

InitKey ==
    /\ InitK
    /\ IdleA
    /\ IdleX
    /\ IdleU
    /\ IdleD
    /\ IdleP

NextK == CheckKey

\* isValidApiKey on every key of the input set
SpecKey == InitKey /\ [][NextK]_vars

InitExtract ==
    /\ InitX
    /\ IdleA
    /\ IdleK
    /\ IdleU
    /\ IdleD
    /\ IdleP

NextX ==
    \/ ExtractGuard
    \/ PageLoopStep
    \/ AccessorThrows
    \/ ExtractReturn

\* extractDesignData on every document and selection of the input set
SpecExtract == InitExtract /\ [][NextX]_vars

InitInstances ==
    /\ InitN
    /\ IdleA
    /\ IdleK
    /\ IdleX
    /\ IdleU
    /\ IdleP

NextN == ExtractInstances

\* extractInstanceData on every document of frames and instances
SpecInstances == InitInstances /\ [][NextN]_vars

InitRoundTrip ==
    /\ InitR
    /\ IdleA
    /\ IdleK
    /\ IdleX
    /\ IdleU
    /\ IdleP

NextR ==
    \/ AssemblePayload
    \/ SerializeAndParse

\* the payload of every document of the input set, serialized and re-parsed
SpecRoundTrip == InitRoundTrip /\ [][NextR]_vars

InitInteractive ==
    /\ InitE
    /\ IdleA
    /\ IdleK
    /\ IdleX
    /\ IdleU
    /\ IdleP

NextE == ExtractInteractive

\* extractInteractiveElements on every named document of the input set
SpecInteractive == InitInteractive /\ [][NextE]_vars

InitPlugin ==
    /\ InitU
    /\ docParent = UiDocument
    /\ selection \in Selections(UiDocument)
    /\ pcX = "idle"
    /\ selIdx = 1
    /\ processedPages = {}
    /\ pages = <<>>
    /\ nodesRead = {}
    /\ extractOut = <<"running">>
    /\ IdleA
    /\ IdleK
    /\ IdleD
    /\ IdleP

NextU ==
    \/ TypeKey
    \/ ClickAnalyze
    \/ ClickSaveKey
    \/ ClickChange
    \/ ClickClose
    \/ UserSelects
    \/ MainAnalyzeSelection
    \/ MainClose
    \/ MainGetKey
    \/ MainSaveKey
    \/ OnApiKeyRetrieved
    \/ OnApiKeySaved
    \/ OnNoSelection
    \/ OnDesignExtracted
    \/ FetchResolves

\* a session of the plugin: the UI, the main thread and the LLM endpoint
SpecPlugin == InitPlugin /\ [][NextU]_vars

InitLayout ==
    /\ InitL
    /\ IdleA
    /\ IdleK
    /\ IdleX
    /\ IdleU
    /\ IdleP

NextL == AnalyzeLayout

\* analyzeLayoutComplexity on every document of the layout input set
SpecLayout == InitLayout /\ [][NextL]_vars

InitComponents ==
    /\ InitC
    /\ IdleA
    /\ IdleK
    /\ IdleX
    /\ IdleU
    /\ IdleP

NextC == ExtractComponents

\* extractComponentData on every document of the component input set
SpecComponents == InitComponents /\ [][NextC]_vars

InitPrompt ==
    /\ InitP
    /\ IdleA
    /\ IdleK
    /\ IdleX
    /\ IdleU
    /\ IdleD

NextP == BuildPrompt

\* buildAnalysisPrompt on every image list of the input set
SpecPrompt == InitPrompt /\ [][NextP]_vars

-----------------------------------------------------------------------------
(* Properties of the response validator (SpecAnalyze) *)

\* parseClaudeResponse has finished after JSON.parse returned an object
Validated == pcA \in {"ui", "done"} /\ http.kind = "ok" /\ span # NoMatch /\ parsed.ok

\* C1: every field absent from the parsed object takes its documented default,
\* every field present in it keeps its parsed value, whatever that value is
C1_AbsentDefaultPresentKept ==
    Validated =>
        /\ ~parseOut.threw
        /\ \A f \in ResultFields :
              parseOut.result[f] =
                 IF Has(parsed.val, f) THEN Get(parsed.val, f) ELSE DefaultResult[f]

\* C2: after validation every sub-field of feasibility, effort and coordination
\* is present, also when the reply gave the object with only some sub-fields
C2_AllSubFieldsPresent ==
    Validated =>
        \A f \in DOMAIN SubFields : \A k \in SubFields[f] :
            Get(parseOut.result[f], k).kind # "undefined"

\* C3: the confidence of a returned result is a number in [0,1]
C3_ConfidenceInUnitInterval ==
    Validated =>
        /\ parseOut.result.confidence.kind = "num"
        /\ parseOut.result.confidence.num >= 0
        /\ parseOut.result.confidence.num <= 100

\* C4: once a span was found and parsed, parseClaudeResponse does not throw:
\* it returns a result whose six fields are all populated
C4_NoThrowOnceParsed ==
    Validated =>
        /\ ~parseOut.threw
        /\ \A f \in ResultFields : parseOut.result[f].kind \notin {"undefined", "null"}

\* a partial reply (some field missing) went through the validator
C4_Witness ==
    /\ pcA = "done"
    /\ Validated
    /\ \E f \in ResultFields : ~Has(parsed.val, f)
    /\ \E f \in ResultFields : Has(parsed.val, f)
    /\ shownError = NoMessage

\* how the finished call failed, if it did
FailureKind ==
    CASE http.kind # "ok" -> "network"
      [] span = NoMatch -> "no_span"
      [] ~parsed.ok -> "malformed"
      [] OTHER -> "none"

\* one reference call per failure kind
ReferenceFailures ==
    {[kind |-> "network", h |-> [kind |-> "status", status |-> "401", reason |-> "Unauthorized"],
      text |-> <<>>],
     [kind |-> "no_span", h |-> HttpOk, text |-> <<Word, Word>>],
     [kind |-> "malformed", h |-> HttpOk, text |-> <<LB, Word, RB>>]}

\* C5: the failure kinds reach the caller, and the user, as distinct messages:
\* the message of a failed call differs from that of a call failing another way,
\* and a non-OK status is reported with its code and reason
C5_FailureKindsDistinct ==
    (pcA = "done" /\ FailureKind # "none") =>
        /\ apiOut.threw
        /\ http.kind = "status" => apiOut.message = AnalyzeCatch(StatusMessage(http))
        /\ \A r \in ReferenceFailures :
              r.kind # FailureKind =>
                 /\ analyzeDesign(r.h, r.text).message # apiOut.message
                 /\ UiCatch(analyzeDesign(r.h, r.text).message) # shownError


WellFormedObject(toks) == Len(toks) > 0 /\ toks[1] = LB /\ JSONParse(toks).ok

\* C6 as stated: whatever the commentary around one well-formed object, the
\* object's span is located and the result is that of the object alone
C6_AnyCommentaryIgnored ==
    (pcA = "done" /\ http.kind = "ok" /\ WellFormedObject(body)) =>
        /\ span = body
        /\ ~parseOut.threw
        /\ parseOut = parseClaudeResponse(body)

\* C6 amended: the same, for commentary with no "{" before the object and
\* no "}" after it
C6_PlainCommentaryIgnored ==
    (/\ pcA = "done"
     /\ http.kind = "ok"
     /\ WellFormedObject(body)
     /\ LB \notin Range(commentaryBefore)
     /\ RB \notin Range(commentaryAfter)) =>
        /\ span = body
        /\ ~parseOut.threw
        /\ parseOut = parseClaudeResponse(body)

\* an object with a nested object, between commentary holding harmless braces
C6_Witness ==
    /\ pcA = "done"
    /\ http.kind = "ok"
    /\ WellFormedObject(body)
    /\ Get(JSONParse(body).val, "feasibility").kind = "obj"
    /\ commentaryBefore = <<RB>>
    /\ commentaryAfter = <<LB>>
    /\ parseOut.result.feasibility = Get(JSONParse(body).val, "feasibility")

-----------------------------------------------------------------------------
(* Properties of the key format rule (SpecKey) *)

-----------------------------------------------------------------------------
(* Properties of the extractor (SpecExtract) *)

AllPageRecords == UNION {RecordIds(pages[i].children) : i \in 1..Len(pages)}

\* C10: for a non-empty selection, every selected root and every node below
\* it appears as a record in the extracted pages, also when several roots
\* share a page and when a root's parent is not the page
C10_EveryRootExtracted ==
    (pcX = "done" /\ Len(selection) > 0) =>
        \A i \in 1..Len(selection) :
            Subtree(docParent, selection[i]) \subseteq AllPageRecords

-----------------------------------------------------------------------------
(* Properties of a plugin session (SpecPlugin) *)

\* C8: a POST is issued only with a credential that starts with sk-ant- and is
\* longer than 20 characters; a listener holding any other key issues none
C8_PostsCarryValidKey ==
    \A p \in posts :
        /\ Len(p.key) > 20
        /\ SubSeq(p.key, 1, 7) = SkAntPrefix

\* one DESIGN_EXTRACTED event: a listener holding a failing key rejected it
\* and another, holding a valid key, issued its POST
C8_Witness ==
    /\ posts # {}
    /\ inflight # {}
    /\ error = ProvideKeyText
    /\ \E i \in 1..Len(handlers) : ~KeyAccepted(handlers[i])

\* C9: an empty selection is rejected at once: extractDesignData throws the
\* no-selection error having read no node, main emits NO_SELECTION and no
\* DESIGN_EXTRACTED for the attempt, and no POST is issued for it
C9_EmptySelectionRejected ==
    /\ \A a \in handledEmpty :
          /\ [attempt |-> a, type |-> "NO_SELECTION"] \in emitted
          /\ [attempt |-> a, type |-> "DESIGN_EXTRACTED"] \notin emitted
          /\ \A p \in posts : p.attempt # a
    /\ Len(selection) = 0 =>
          /\ extractDesignData(docParent, selection).out = NoSelectionMessage
          /\ extractDesignData(docParent, selection).nodesRead = {}
          /\ extractDesignData(docParent, selection).pages = <<>>

\* the UI has shown the no-selection error of an attempt on an empty selection
C9_Witness ==
    /\ handledEmpty # {}
    /\ error = NoSelectionText
    /\ ~isAnalyzing
    /\ ~isExtracting
    /\ toUI = <<>>

-----------------------------------------------------------------------------
(* Properties of the walks of the extractor (SpecExtract) *)

NoDuplicates(seq) == \A i, j \in 1..Len(seq) : i # j => seq[i] # seq[j]

\* no selected root lies below another selected root
RootsApart(doc, sel) ==
    \A i, j \in 1..Len(sel) : i # j => sel[i] \notin Subtree(doc, sel[j])

\* C11: the walk of a selection tree yields each of its nodes exactly once:
\* no id appears twice in the record tree of a page or in the flat node list
\* of a root (nor in that of a whole selection of separate roots), and the
\* descendant counts of a node's children, whose subtrees are disjoint, sum
\* to the node's own count minus one
C11_NoNodeRevisited ==
    pcX = "done" =>
        /\ \A i \in 1..Len(pages) : NoDuplicates(RecordSeq(pages[i].children))
        /\ \A i \in 1..Len(selection) :
              LET flat == getAllNodesInSelection(docParent, <<selection[i]>>)
              IN /\ NoDuplicates(flat)
                 /\ Range(flat) = Subtree(docParent, selection[i])
                 /\ Len(flat) = getDescendantCount(docParent, selection[i])
        /\ RootsApart(docParent, selection) =>
              NoDuplicates(getAllNodesInSelection(docParent, selection))
        /\ \A n \in NodesOf(docParent) :
              /\ SumDescendantCounts(docParent, ChildrenOf(docParent, n))
                     = getDescendantCount(docParent, n) - 1
              /\ \A c, d \in NodesOf(docParent) :
                     (docParent[c] = n /\ docParent[d] = n /\ c # d)
                         => Subtree(docParent, c) \cap Subtree(docParent, d) = {}

\* two separate roots were walked, one of them with children of its own
C11_Witness ==
    /\ pcX = "done"
    /\ Len(selection) = 2
    /\ RootsApart(docParent, selection)
    /\ pages # <<>>
    /\ Len(getAllNodesInSelection(docParent, selection)) >= 3
    /\ \E n \in NodesOf(docParent) : Len(ChildrenOf(docParent, n)) = 2

-----------------------------------------------------------------------------
(* Properties of the layout score (SpecLayout) *)

PatternCounts == {0, 2, 4, 6}

\* C12: the layout score lies in 1..10 for every non-empty selection and for
\* every value of the four signals
C12_LayoutScoreInRange ==
    pcD = "done" =>
        /\ layout.score \in 1..10
        /\ \A p \in PatternCounts :
              LayoutScore(layout.nestingDepth, layout.autoLayoutUsage, p,
                          layout.responsiveElements) \in 1..10

\* a document that drives the depth, auto-layout and responsive terms to
\* their caps
C12_Witness ==
    /\ pcD = "done"
    /\ layout.nestingDepth >= 9
    /\ layout.autoLayoutUsage >= 10
    /\ layout.responsiveElements >= 6
    /\ layout.score = 9

\* C13: raising any one of the four signals, the other three held fixed,
\* never lowers the score
C13_ScoreMonotone ==
    pcD = "done" =>
        LET d == layout.nestingDepth
            a == layout.autoLayoutUsage
            r == layout.responsiveElements
        IN \A p \in PatternCounts :
              /\ LayoutScore(d + 1, a, p, r) >= LayoutScore(d, a, p, r)
              /\ LayoutScore(d, a + 1, p, r) >= LayoutScore(d, a, p, r)
              /\ LayoutScore(d, a, p + 2, r) >= LayoutScore(d, a, p, r)
              /\ LayoutScore(d, a, p, r + 1) >= LayoutScore(d, a, p, r)

\* a document one level short of a step of the depth term: one more level
\* raises the score by one
C13_Witness ==
    /\ pcD = "done"
    /\ layout.nestingDepth = 2
    /\ LayoutScore(3, layout.autoLayoutUsage, Len(constraintPatterns),
                   layout.responsiveElements) = layout.score + 1

\* C14: a single text node placed on the page, without children or
\* auto-layout, scores 1 with autoLayoutUsage 0 and nestingDepth 0
C14_SingleTextNode ==
    (/\ pcD = "done"
     /\ DOMAIN sceneParent = {1}
     /\ sceneNodes[1].type = "TEXT"
     /\ sceneSelection = <<1>>)
        => /\ layout.score = 1
           /\ layout.autoLayoutUsage = 0
           /\ layout.nestingDepth = 0

-----------------------------------------------------------------------------
(* Properties of the component collection (SpecComponents) *)

\* C15: the overall complexity of every component record lies in 1..10
C15_OverallInRange ==
    pcD = "done" =>
        \A i \in 1..Len(components) : components[i].complexity.overall \in 1..10

\* C16: the collection holds one record for every component and every
\* component-set node of the document, and a record's instance count is the
\* number of instance nodes of the document whose main component it is
C16_EveryComponentRecorded ==
    pcD = "done" =>
        /\ {components[i].id : i \in 1..Len(components)}
               = {n \in DOMAIN sceneNodes :
                      sceneNodes[n].type \in {"COMPONENT", "COMPONENT_SET"}}
        /\ \A i, j \in 1..Len(components) :
               i # j => components[i].id # components[j].id
        /\ \A i \in 1..Len(components) :
               components[i].instances
                   = Cardinality({n \in DOMAIN sceneNodes :
                                     /\ sceneNodes[n].type = "INSTANCE"
                                     /\ sceneNodes[n].mainComponent = components[i].id})

-----------------------------------------------------------------------------
(* Properties of buildAnalysisPrompt (SpecPrompt) *)

\* C17: the prompt is one text block, then for each of the first min(3, n)
\* images, in payload order, a text label block and that image's block:
\* 1 + 2 * min(3, n) blocks, images beyond the third never attached
C17_PromptBlocks ==
    pcP = "done" =>
        LET n == Len(images.list)
            k == Min2(3, n)
        IN /\ Len(content) = 1 + 2 * k
           /\ content[1].type = "text"
           /\ \A i \in 1..k :
                 /\ content[2 * i].type = "text"
                 /\ content[2 * i].text = "VISUAL CONTEXT - " \o images.list[i].description
                 /\ content[2 * i + 1].type = "image"
                 /\ content[2 * i + 1].data = images.list[i].data

\* a payload of more than three images, the fourth unlike the first three
C17_Witness ==
    /\ pcP = "done"
    /\ images.present
    /\ Len(images.list) > 3
    /\ \A i \in 1..3 : images.list[4] # images.list[i]
    /\ Len(content) = 7

-----------------------------------------------------------------------------
(* Properties of the staging and the ending of an attempt (SpecPlugin) *)

\* C18: no DESIGN_EXTRACTED is emitted for an attempt without an
\* EXTRACTION_STARTED emitted before it for the same attempt
C18_StartedBeforeExtracted ==
    \A e \in emitted :
        e.type = "DESIGN_EXTRACTED"
            => [attempt |-> e.attempt, type |-> "EXTRACTION_STARTED"] \in emitted

\* nothing is pending any more: no message to handle, no fetch to settle
Quiescent == toMain = <<>> /\ toUI = <<>> /\ inflight = {}

\* C19: every attempt ends with exactly one terminal event: once nothing is
\* pending the UI has left its analyzing and extracting state, also after a
\* host accessor threw on the main thread, and the UI does not leave the
\* analyzing state of an attempt whose request is still to settle
C19_OneTerminalEvent ==
    /\ (~closed /\ Quiescent) => ~(isAnalyzing \/ isExtracting)
    /\ \A f \in inflight : f.attempt = attempt => isAnalyzing

\* an attempt is outstanding: its ANALYZE_SELECTION, its extraction event or
\* its request has not been handled yet
Outstanding ==
    \/ \E i \in 1..Len(toMain) : toMain[i].type = "ANALYZE_SELECTION"
    \/ \E i \in 1..Len(toUI) : toUI[i].type \in {"NO_SELECTION", "DESIGN_EXTRACTED"}
    \/ inflight # {}

\* C20: at most one analysis request is in flight in a session, and while an
\* attempt is outstanding the Analyze button stays disabled
C20_AtMostOneInFlight ==
    /\ Cardinality(inflight) <= 1
    /\ Cardinality({i \in 1..Len(toMain) : toMain[i].type = "ANALYZE_SELECTION"}) <= 1
    /\ (~closed /\ Outstanding) => (isAnalyzing \/ isExtracting \/ showApiKeyInput)

\* C21: each analysis request causes exactly one POST: the POSTs issued for
\* one DESIGN_EXTRACTED payload all come from one analyzeDesign call, whatever
\* number of times the apiKey changed before
C21_OnePostPerRequest ==
    \A p \in posts, q \in posts : p.attempt = q.attempt => p.gen = q.gen

\* C27: a click on Save shows the invalid-format message only for a key that
\* lacks the sk-ant- prefix or has fewer than 20 characters; every other key,
\* one of exactly 20 characters included, is emitted with SAVE_API_KEY
C27_AtLeastTwentyAccepted ==
    [][(error' = InvalidFormatText /\ error # InvalidFormatText)
          => ~(StartsWith(apiKey, SkAntPrefix) /\ Len(apiKey) >= 20)]_vars

\* C28: the key a POST carries is the apiKey of the moment DESIGN_EXTRACTED is
\* handled, and while that apiKey passes the test no listener reports a missing
\* key, reopens the key input or ends the analysis when the payload arrives
C28_CurrentKeyOnly ==
    /\ [](\A p \in posts : p.key = p.current)
    /\ [][(/\ toUI # <<>>
           /\ Head(toUI).type = "DESIGN_EXTRACTED"
           /\ toUI' = Tail(toUI)
           /\ KeyAccepted(apiKey))
          => (/\ error' = error
              /\ showApiKeyInput' = showApiKeyInput
              /\ isAnalyzing' = isAnalyzing)]_vars

\* C29: a result and an error are never on screen together
C29_NeverBoth == feedback # NoFeedback => error = NoMessage

ExpectedType ==
    {<<<<"C", "a", "r", "d">>, "none">>,
     <<<<"B", "u", "y", " ", "B", "t", "n">>, "BUTTON">>,
     <<<<"B", "U", "T", "T", "O", "N">>, "BUTTON">>,
     <<<<"C", "l", "i", "c", "k">>, "BUTTON">>,
     <<<<"P", "r", "e", "s", "s">>, "BUTTON">>,
     <<<<"S", "u", "b", "m", "i", "t">>, "BUTTON">>,
     <<<<"S", "u", "b", "m", "i", "t", " ", "f", "o", "r", "m">>, "FORM">>,
     <<<<"L", "i", "n", "k", " ", "i", "n", "p", "u", "t">>, "INPUT">>,
     <<<<"N", "a", "v", " ", "l", "i", "n", "k">>, "LINK">>,
     <<<<"N", "a", "v">>, "NAVIGATION">>,
     <<<<"M", "e", "n", "u">>, "none">>,
     <<<<"I", "n", "p", "u", "t", " ", "f", "i", "e", "l", "d">>, "none">>,
     <<<<"P", "r", "e", "s", "s", " ", "m", "e", "n", "u">>, "NAVIGATION">>,
     <<<<"F", "o", "r", "m", " ", "b", "t", "n">>, "BUTTON">>}

Expected(name) == (CHOOSE e \in ExpectedType : e[1] = name)[2]

\* C24: the nodes reported as interactive are the nodes of the selected
\* subtree whose name holds, in any letter case, one of button, btn, click,
\* press, submit, link, nav; the type of a record is the first match of
\* button/btn, input/field, link, form, nav/menu, and BUTTON without a match
C24_InteractiveByName ==
    pcD = "done" =>
        LET own == Subtree(sceneParent, sceneSelection[1])
        IN /\ {Get(interactive[i], "id").num : i \in 1..Len(interactive)}
                 = {n \in own : Expected(sceneNodes[n].name) # "none"}
           /\ \A i \in 1..Len(interactive) :
                 Get(interactive[i], "type").str
                    = Expected(sceneNodes[Get(interactive[i], "id").num].name)

\* a layer named "Link input" was reported as an INPUT, and a layer named
\* "Menu" of the same selection was not reported
C24_Witness ==
    /\ pcD = "done"
    /\ Len(interactive) = 1
    /\ sceneNodes[Get(interactive[1], "id").num].name = <<"L", "i", "n", "k", " ", "i", "n", "p", "u", "t">>
    /\ Get(interactive[1], "type").str = "INPUT"
    /\ \E n \in Subtree(sceneParent, sceneSelection[1]) :
          sceneNodes[n].name = <<"M", "e", "n", "u">>

\* the nodes that contain n, up to the page
Ancestors(par, n) == {a \in DOMAIN par : a # n /\ n \in Subtree(par, a)}

\* C25: the instances collection holds one record for every instance node of
\* the selected subtree; isNested holds exactly when a node that contains the
\* instance is an instance itself, depth is the number of nodes that contain
\* it below the page, and so isNested implies depth >= 1
C25_InstanceRecords ==
    pcD = "done" =>
        LET own == {n \in Subtree(sceneParent, sceneSelection[1]) :
                       sceneNodes[n].type = "INSTANCE"}
        IN /\ {instances[i].id : i \in 1..Len(instances)} = own
           /\ Len(instances) = Cardinality(own)
           /\ \A i \in 1..Len(instances) :
                 LET above == Ancestors(sceneParent, instances[i].id)
                 IN /\ instances[i].isNested
                          <=> \E a \in above : sceneNodes[a].type = "INSTANCE"
                    /\ instances[i].depth = Cardinality(above)
                    /\ instances[i].isNested => instances[i].depth >= 1

\* an instance inside a frame inside an instance was recorded as nested at
\* depth 2
C25_Witness ==
    /\ pcD = "done"
    /\ \E i \in 1..Len(instances) :
          /\ instances[i].isNested
          /\ instances[i].depth = 2
          /\ sceneNodes[sceneParent[instances[i].id]].type = "FRAME"

\* C22: serializing a payload and parsing the text again gives the payload
\* back, with the same keys and values at every level
C22_RoundTripIdentical ==
    pcD = "done" => (reparsed.ok /\ reparsed.val = payload)

\* C26: extraction is all-or-nothing: when an accessor fails during the walk
\* of a non-empty selection, extractDesignData returns no payload and fails
\* with an error that names the node
C26_AllOrNothing ==
    (pcX = "failed" /\ Len(selection) > 0) =>
        /\ extractOut # <<"returned">>
        /\ \E i \in 1..Len(extractOut) : extractOut[i] = "node id"

=============================================================================
